---- MODULE Spec2Model ----
(***************************************************************************)
(* State-machine model of the staticsite content pipeline:                 *)
(*   - the feature scheduler (staticsite/feature.py, Features),            *)
(*   - the page registry (staticsite/site.py, Site.add_page),              *)
(*   - the directory scanner (staticsite/contents.py, Dir.scan),           *)
(*   - page validation (staticsite/page.py, Page.is_valid).                *)
(* Spec drives a whole run: registration of feature classes, commit(),     *)
(* the scan and load of a content directory, and analyze().                *)
(***************************************************************************)
EXTENDS Integers, Sequences, FiniteSets, TLC

(***************************************************************************)
(* Bounds of the model.                                                    *)
(***************************************************************************)
\* Total number of RUN_BEFORE / RUN_AFTER entries declared by all the
\* registered feature classes together.
MaxDecls == 3

\* Number of Site.add_page calls followed on a committed site.
MaxPages == 2

\* Number of pattern rules ("files" and "dirs" together) of a .staticsite file.
MaxRules == 2

\* Number of render_page calls followed, and the last modification time a
\* source file reaches (it starts at 1).
MaxRenders == 3
MaxMtime == 2
MaxDate == 2

\* Names under which feature classes can be registered, in their natural
\* (sorting) order.
FeatureOrder == <<"A", "B", "C">>
FeatureNames == {FeatureOrder[i] : i \in 1..Len(FeatureOrder)}

\* A name that features order themselves against but that no module
\* registers as a feature.
UnknownName == "autogenerated_pages"
DepNames == FeatureNames \cup {UnknownName}

\* Metadata names a feature can ask to be notified about.
MetaNames == {"tags", "links"}

NoValue == "<none>"

VARIABLES
    \* ---- Features (feature.py) ----
    feature_classes,   \* Features.feature_classes: registered names, in dict insertion order
    RUN_BEFORE,        \* cls.RUN_BEFORE of each registered class
    RUN_AFTER,         \* cls.RUN_AFTER of each registered class
    features,          \* Features.features: names of the instantiated features
    instantiations,    \* number of times each class constructor has been called
    sorted,            \* Features.sorted
    metadata_hooks,    \* Features.metadata_hooks: metadata name -> list of features
    \* ---- the run ----
    phase,             \* position of the run
    dir_files,         \* Dir.files of the content directory: the pending file names
    dir_meta_log,      \* features whose load_dir_meta hook has run, in call order
    load_dir_log,      \* features whose load_dir hook has run, in call order
    finalize_log,      \* features whose finalize hook has completed, in call order
    \* ---- Site (site.py) ----
    DRAFT_MODE,        \* Settings.DRAFT_MODE
    pages,             \* Site.pages
    hook_log,          \* calls feature.add_page(page) made by Site.add_page, in order
    added,             \* the pages passed to Site.add_page so far, in call order
    \* ---- a second run of the same site on the same input ----
    pages2,            \* Site.pages of the second run
    hook_log2,         \* the feature.add_page calls of the second run
    \* ---- Dir (contents.py), one entry per Dir object, keyed by src_relpath ----
    dir_config,        \* parsed contents of each directory's .staticsite file
    index_front_matter,\* parsed front matter of each directory's index.md
    dir_meta,          \* Dir.meta
    dir_rules,         \* Dir.dir_rules
    file_rules,        \* Dir.file_rules
    file_meta,         \* Dir.file_meta, the entries of the files
    site_dir_meta,     \* Site.dir_meta: the src_relpaths stored
    scan_done,         \* directories whose scan body has run, in order
    \* ---- Page (page.py) ----
    page_in,           \* meta of the page is_valid is called on, before the call
    page_meta,         \* Page.meta
    is_valid_result,   \* what Page.is_valid returned
    \* ---- the pages of a run ----
    is_valid_log,      \* <<src_linkpath, result>> of the is_valid calls made on the run's pages
    \* ---- link resolution (page.py) ----
    registered,        \* the registered pages: source path -> site path
    resolve_call,      \* the last resolve_path / resolve_url call and its outcome
    \* ---- markdown rendering (features/markdown.py) ----
    render_cache,      \* MarkdownPages.render_cache: source path -> entry
    src_mtime,         \* page.src.stat.st_mtime of the page being rendered
    src_links,         \* the links of the page's body, in document order
    renders,           \* number of render_page calls made
    last_render,       \* what the last render_page call returned, and how
    \* ---- a taxonomy (features/taxonomy.py) ----
    tagged,            \* site.pages_by_metadata[name]: the pages carrying the key, in add order
    categories,        \* TaxonomyPage.categories: category name -> CategoryPage
    taxonomy_pages,    \* TaxonomyPage.meta["pages"]: the categories, in dict order
    generated,         \* the pages TaxonomyPage.finalize passed to site.add_page, in order
    tax_phase,         \* "collecting" until finalize has run, then "stable"
    sequence_call,     \* the last CategoryPage.sequence call and what it returned
    \* ---- the load pass over a scanned tree (contents.py) ----
    dir_class,         \* the class Dir.create chose for each directory
    files,             \* Dir.files of each directory: the pending file names
    disk,              \* what reading each source file gives
    load_log,          \* the calls that handled pending files, in order
    page_log,          \* the site.add_page calls made by the load methods, in order
    load_done          \* directories whose load body has run, in order

schedVars == <<feature_classes, RUN_BEFORE, RUN_AFTER, features, instantiations,
               sorted, metadata_hooks>>
runVars == <<phase, dir_files, dir_meta_log, load_dir_log, finalize_log, is_valid_log>>
siteVars == <<DRAFT_MODE, pages, hook_log, added, pages2, hook_log2>>
scanVars == <<dir_config, index_front_matter, dir_meta, dir_rules, file_rules,
              file_meta, site_dir_meta, scan_done>>
validVars == <<page_in, page_meta, is_valid_result>>
resolveVars == <<registered, resolve_call>>
cacheVars == <<render_cache, src_mtime, src_links, renders, last_render>>
taxVars == <<tagged, categories, taxonomy_pages, generated, tax_phase, sequence_call>>
loadVars == <<dir_class, files, disk, load_log, page_log, load_done>>
vars == <<schedVars, runVars, siteVars, scanVars, validVars, resolveVars, cacheVars, taxVars,
          loadVars>>

(***************************************************************************)
(* Helpers on sequences and functions.                                     *)
(***************************************************************************)
Range(s) == {s[i] : i \in 1..Len(s)}

\* Position of x in sequence s, 0 when absent (first occurrence).
IndexOf(s, x) ==
    IF x \in Range(s) THEN CHOOSE i \in 1..Len(s) : s[i] = x /\ \A j \in 1..(i-1) : s[j] # x
    ELSE 0

Occurrences(s, x) == Cardinality({i \in 1..Len(s) : s[i] = x})

EmptyMeta == [k \in {} |-> NoValue]

\* The order in which a directory's files are visited (dict order of Dir.files).
FileRank(fname) ==
    CASE fname = "index.md" -> 1
      [] fname = "series.taxonomy" -> 2
      [] fname = "blog.links" -> 3
      [] OTHER -> 4

(***************************************************************************)
(* toposort.sort: linearize the graph, failing on a cycle.  Nodes are the  *)
(* keys of the graph and the members of its values; among the nodes that   *)
(* are ready the one that sorts first is taken, which makes the result a   *)
(* function of the graph.                                                  *)
(***************************************************************************)
GraphNodes(graph) == DOMAIN graph \cup UNION {graph[k] : k \in DOMAIN graph}

FirstByName(S) ==
    FeatureOrder[CHOOSE i \in 1..Len(FeatureOrder) :
        /\ FeatureOrder[i] \in S
        /\ \A j \in 1..(i-1) : FeatureOrder[j] \notin S]

RECURSIVE toposort_visit(_, _, _)
toposort_visit(graph, left, acc) ==
    IF left = {} THEN [ok |-> TRUE, order |-> acc]
    ELSE LET ready == {n \in left :
                         \A k \in DOMAIN graph : (k \in left) => (n \notin graph[k])}
         IN  IF ready = {} THEN [ok |-> FALSE, order |-> <<>>]
             ELSE LET n == FirstByName(ready)
                  IN  toposort_visit(graph, left \ {n}, Append(acc, n))

toposort_sort(graph) == toposort_visit(graph, GraphNodes(graph), <<>>)

(***************************************************************************)
(* Features._sort_features                                                 *)
(***************************************************************************)
\* features.get(name): the registered class of that name, if any.
IsRegistered(classes, name) == name \in Range(classes)

\* Mutant: an unregistered name ends the RUN_AFTER loop of the class ("break"
\* for "continue"), here with the unregistered name listed first.
RunAfterEdges_stopAtUnknown(classes, ra) ==
    {e \in FeatureNames \X FeatureNames :
        /\ e[2] \in Range(classes)
        /\ e[1] \in ra[e[2]]
        /\ e[1] \in Range(classes)
        /\ ra[e[2]] \subseteq Range(classes)}

\* Edges dep -> feature added by the RUN_AFTER loop (graph[dep].add(feature)).
RunAfterEdges(classes, ra) ==
    {<<dep, f>> : dep \in FeatureNames, f \in Range(classes)} \cap
    {e \in FeatureNames \X FeatureNames :
        e[1] \in ra[e[2]] /\ IsRegistered(classes, e[1])}

\* Mutant: the RUN_BEFORE loop adds its edge the way the RUN_AFTER loop does
\* (graph[dep].add(feature)).
RunBeforeEdges_reversed(classes, rb) ==
    {e \in FeatureNames \X FeatureNames :
        /\ e[2] \in Range(classes)
        /\ e[1] \in rb[e[2]]
        /\ e[1] \in Range(classes)}

\* Edges feature -> dep added by the RUN_BEFORE loop (graph[feature].add(dep)).
RunBeforeEdges(classes, rb) ==
    {<<f, dep>> : f \in Range(classes), dep \in FeatureNames} \cap
    {e \in FeatureNames \X FeatureNames :
        e[2] \in rb[e[1]] /\ IsRegistered(classes, e[2])}

\* Mutant: the RUN_AFTER declarations are left out of the graph.
DependencyGraph_beforeOnly(classes, rb, ra) ==
    LET edges == RunBeforeEdges(classes, rb)
    IN  [k \in {e[1] : e \in edges} |-> {e[2] : e \in {d \in edges : d[1] = k}}]

\* The defaultdict(set) built by the two loops: a key exists only for a node
\* with an outgoing edge.
DependencyGraph(classes, rb, ra) ==
    LET edges == RunAfterEdges(classes, ra) \cup RunBeforeEdges(classes, rb)
    IN  [k \in {e[1] : e \in edges} |-> {e[2] : e \in {d \in edges : d[1] = k}}]

sort_features(classes, rb, ra) == toposort_sort(DependencyGraph(classes, rb, ra))

(***************************************************************************)
(* Features.commit: the instantiation loop over the sorted classes.        *)
(***************************************************************************)
\* feature.for_metadata of an instance; Feature.__init__ sets it to [] and a
\* subclass constructor fills it.
ForMetadata(name) ==
    CASE name = "A" -> <<"tags">>
      [] name = "B" -> <<"tags", "links">>
      [] OTHER -> <<>>

RECURSIVE HooksAppend(_, _, _)
HooksAppend(hooks, names, feature) ==
    IF names = <<>> THEN hooks
    ELSE HooksAppend([hooks EXCEPT ![Head(names)] = Append(@, feature)],
                     Tail(names), feature)

\* st: [features, instantiations, sorted, metadata_hooks]
RECURSIVE CommitLoop(_, _)
CommitLoop(order, st) ==
    IF order = <<>> THEN st
    ELSE LET cls == Head(order)
         IN  IF cls \in st.features
             THEN CommitLoop(Tail(order), st)
             ELSE CommitLoop(Tail(order),
                    [features |-> st.features \cup {cls},
                     instantiations |-> [st.instantiations EXCEPT ![cls] = @ + 1],
                     sorted |-> Append(st.sorted, cls),
                     metadata_hooks |-> HooksAppend(st.metadata_hooks,
                                                    ForMetadata(cls), cls)])

(***************************************************************************)
(* Site.add_page                                                           *)
(***************************************************************************)
\* Site.generation_time, on the scale of the page dates.
GenerationTime == 1

\* A page: the key Site.pages files it under, and its metadata.
HasMeta(page, name) == name \in DOMAIN page.meta

\* Mutant: a page dated exactly at the generation time counts as future.
IsIgnoredAsFuture_orEqual(draft_mode, page) ==
    /\ ~draft_mode
    /\ HasMeta(page, "date")
    /\ page.meta["date"] >= GenerationTime

\* The test that makes add_page return without adding the page.
IsIgnoredAsFuture(draft_mode, page) ==
    /\ ~draft_mode
    /\ HasMeta(page, "date")
    /\ page.meta["date"] > GenerationTime

\* trigger_features: the set of features hooked on a metadata name of the page.
TriggerFeatures(hooks, page) ==
    UNION {Range(hooks[name]) : name \in {m \in DOMAIN hooks : HasMeta(page, m)}}

\* The orders in which "for feature in trigger_features" can visit a set of
\* feature objects, which hash by address: any order.
IterationOrders(S) ==
    {o \in [1..Cardinality(S) -> S] : \A i, j \in 1..Cardinality(S) : o[i] = o[j] => i = j}

\* The registry after self.pages[page.src_linkpath] = page.
StorePage(reg, page) ==
    [k \in DOMAIN reg \cup {page.src_linkpath} |->
        IF k = page.src_linkpath THEN page ELSE reg[k]]

\* add_page(page) on a registry and a log of hook calls, the set of triggered
\* features being visited in the given order.
add_page(draft_mode, hooks, reg, log, page, order) ==
    IF IsIgnoredAsFuture(draft_mode, page)
    THEN [pages |-> reg, hook_log |-> log]
    ELSE [pages |-> StorePage(reg, page),
          hook_log |-> log \o [i \in 1..Len(order) |-> <<order[i], page>>]]

(***************************************************************************)
(* The content directory of a run: Dir.scan's hook loop, ContentDir.load.  *)
(***************************************************************************)
\* The files a feature's load_dir takes from the pending ones: feature A loads
\* the .md files the way MarkdownPages does, B the .taxonomy files the way
\* TaxonomyFeature does, C the .links files the way Links does.
Claims(feature, fname) ==
    \/ feature = "A" /\ fname = "index.md"
    \/ feature = "B" /\ fname = "series.taxonomy"
    \/ feature = "C" /\ fname = "blog.links"

\* Whether the feature's load_dir calls page.is_valid() on the pages it builds.
LoadDirValidates(feature) == feature = "B"

\* The page built for a source file, with the metadata of the file: the
\* index page is part of series "s1" and has no site_url.
PageOfFile(fname) ==
    [src_linkpath |-> fname,
     meta |-> [k \in {"site_name", "site_path"}
                     \cup (IF fname = "index.md" THEN {"series"} ELSE {"site_url"}) |->
                 CASE k = "site_name" -> "Site"
                   [] k = "site_path" -> <<fname>>
                   [] k = "series" -> "s1"
                   [] OTHER -> "https://example.org"]]

(***************************************************************************)
(* The content tree scanned by Dir.scan.  A directory is named by its      *)
(* src_relpath, a path by the sequence of its components: os.path.join of  *)
(* a relative path and a name appends the name.                            *)
(***************************************************************************)
RootDir == <<>>
BlogDir == <<"blog">>
DirIds == {RootDir, BlogDir}

\* os.scandir: the subdirectories and the files of a directory (the
\* .staticsite file apart: scan pops it from the files).
Subdirs(d) == IF d = RootDir THEN {"blog"} ELSE {}
Files(d) == IF d = RootDir THEN {"index.md", "notes.txt"} ELSE {"post.md"}

\* os.path.basename(self.abspath)
Basename(d) == IF d = RootDir THEN "content" ELSE d[Len(d)]

\* dict.update
Update(m, delta) ==
    [k \in DOMAIN m \cup DOMAIN delta |-> IF k \in DOMAIN delta THEN delta[k] ELSE m[k]]

Only(k, v) == [x \in {k} |-> v]

\* Site.metadata: the registered metadata names, and which are inherited.
RegisteredMetadata == {"color", "links"}
Inherited(name) == name = "color"

\* compile_page_match(pattern).match(name): shell-like patterns, by kind.
Ext(name) ==
    CASE name \in {"index.md", "post.md", "readme.md", "note.md"} -> "md"
      [] name = "notes.txt" -> "txt"
      [] OTHER -> ""
PatternMatches(pattern, name) ==
    CASE pattern.kind = "any" -> TRUE
      [] pattern.kind = "ext" -> Ext(name) = pattern.arg
      [] OTHER -> name = pattern.arg

\* Stopping at the first rule that matches.
ApplyRules_firstMatch(meta, rules, name) ==
    LET hits == {i \in 1..Len(rules) : PatternMatches(rules[i].pattern, name)}
    IN  IF hits = {} THEN meta
        ELSE Update(meta, rules[CHOOSE i \in hits : \A j \in hits : i <= j].meta)

\* "res = dict(self.meta); for pattern, meta in rules: if pattern.match(name):
\* res.update(meta)"
RECURSIVE ApplyRulesFrom(_, _, _)
ApplyRulesFrom(res, rules, name) ==
    IF rules = <<>> THEN res
    ELSE ApplyRulesFrom(
            IF PatternMatches(Head(rules).pattern, name)
            THEN Update(res, Head(rules).meta) ELSE res,
            Tail(rules), name)
ApplyRules(meta, rules, name) == ApplyRulesFrom(meta, rules, name)

\* A directory without a .staticsite file, or an index.md without readable
\* front matter.
NoConfig == [dirs |-> <<>>, files |-> <<>>, keys |-> EmptyMeta, present |-> FALSE]

\* Dir.add_dir_config on the state st = [meta, dir_rules, file_rules] of a Dir.
add_dir_config(st, config) ==
    LET merged == {n \in RegisteredMetadata \cap DOMAIN config.keys : Inherited(n)}
        m1 == Update(st.meta, [n \in merged |-> config.keys[n]])
        m2 == IF "title" \in DOMAIN config.keys /\ "site_name" \notin DOMAIN m1
              THEN Update(m1, Only("site_name", config.keys["title"]))
              ELSE m1
    IN  [meta |-> m2,
         dir_rules |-> st.dir_rules \o config.dirs,
         file_rules |-> st.file_rules \o config.files]

\* feature.load_dir_meta(dir): the page loader that claims the .md files
\* (feature "A") reads the front matter of index.md as directory
\* configuration; the other features leave the directory alone.
load_dir_meta(feature, d, front, st) ==
    IF Claims(feature, "index.md") /\ "index.md" \in Files(d) /\ front.present
    THEN add_dir_config(st, front)
    ELSE st

RECURSIVE LoadDirMetaHooks(_, _, _, _)
LoadDirMetaHooks(order, d, front, st) ==
    IF order = <<>> THEN st
    ELSE LoadDirMetaHooks(Tail(order), d, front, load_dir_meta(Head(order), d, front, st))

\* Dir.scan up to the computation of the children's metadata: the state of
\* the Dir after the .staticsite file, the feature hooks and the site_name
\* default.
ScanOwnConfig(d, order, config, front, st) ==
    LET st1 == IF config.present THEN add_dir_config(st, config) ELSE st
        st2 == LoadDirMetaHooks(order, d, front, st1)
    IN  IF "site_name" \in DOMAIN st2.meta THEN st2
        ELSE [st2 EXCEPT !.meta = Update(@, Only("site_name", Basename(d)))]

\* No directory scanned yet, no Dir object constructed.
NoScan ==
    /\ dir_config = [d \in DirIds |-> NoConfig]
    /\ index_front_matter = [d \in DirIds |-> NoConfig]
    /\ dir_meta = EmptyMeta
    /\ dir_rules = EmptyMeta
    /\ file_rules = EmptyMeta
    /\ file_meta = EmptyMeta
    /\ site_dir_meta = {}
    /\ scan_done = <<>>

(***************************************************************************)
(* Page.is_valid.  A site_path is a string, modelled by the sequence of    *)
(* its characters.                                                         *)
(***************************************************************************)
\* str.lstrip("/")
RECURSIVE LStripSlash(_)
LStripSlash(path) ==
    IF path # <<>> /\ Head(path) = "/" THEN LStripSlash(Tail(path)) ELSE path

\* Page.draft
IsDraft(meta) == "date" \in DOMAIN meta /\ meta["date"] > GenerationTime

\* Page.is_valid: the value returned and the metadata it leaves.
is_valid(draft_mode, meta) ==
    LET m1 == IF "template" \in DOMAIN meta THEN meta
              ELSE Update(meta, Only("template", "page.html"))
        m2 == IF "title" \in DOMAIN m1 THEN m1
              ELSE Update(m1, Only("title", m1["site_name"]))
    IN  IF draft_mode THEN [result |-> "True", meta |-> m2]
        ELSE IF IsDraft(m2) THEN [result |-> "False", meta |-> m2]
        ELSE IF "site_url" \notin DOMAIN m2 THEN [result |-> "False", meta |-> m2]
        ELSE IF "site_path" \notin DOMAIN m2 THEN [result |-> "False", meta |-> m2]
        ELSE [result |-> "True",
              meta |-> [m2 EXCEPT !["site_path"] = LStripSlash(@)]]

NoValidation ==
    /\ page_in = EmptyMeta
    /\ page_meta = EmptyMeta
    /\ is_valid_result = "not called"

(***************************************************************************)
(* Page.resolve_path, Page.url_for, Page.resolve_url.  A path is the       *)
(* sequence of its components; a target is [abs, parts], abs telling       *)
(* whether the string begins with "/"; "" is the relative target without   *)
(* parts.  The registry is given by registered: the source path of each    *)
(* registered page, mapped to its site path.                               *)
(***************************************************************************)
\* What os.path.normpath returns for the empty path.
Dot == <<".">>

\* The leading "/" of an absolute path, kept as the first component.
Slash == "/"

\* os.path.normpath: "." components dropped, "x/.." collapsed, leading ".."
\* kept in a relative path and dropped after the leading "/".
RECURSIVE NormParts(_, _)
NormParts(done, todo) ==
    IF todo = <<>> THEN done
    ELSE LET c == Head(todo)
         IN  IF c = "." THEN NormParts(done, Tail(todo))
             ELSE IF c = ".." /\ done = <<Slash>> THEN NormParts(done, Tail(todo))
             ELSE IF c = ".." /\ done # <<>> /\ done[Len(done)] # ".."
             THEN NormParts(SubSeq(done, 1, Len(done) - 1), Tail(todo))
             ELSE NormParts(Append(done, c), Tail(todo))
NormPath(parts) == LET n == NormParts(<<>>, parts) IN IF n = <<>> THEN Dot ELSE n

\* os.path.dirname: dirname("/") is "/".
Dirname(parts) ==
    IF parts = <<>> \/ parts = <<Slash>> THEN parts ELSE SubSeq(parts, 1, Len(parts) - 1)

\* site.pages_by_src_relpath and site.pages (keyed by site path): each maps a
\* path to a page, a page being named by its source path.
PagesBySrcRelpath(reg) == [src \in DOMAIN reg |-> src]
PagesBySitePath(reg) ==
    [sp \in {reg[src] : src \in DOMAIN reg} |-> CHOOSE src \in DOMAIN reg : reg[src] = sp]

Found(page) == [found |-> TRUE, page |-> page]
PageNotFound == [found |-> FALSE, page |-> <<>>]
\* The call does not return: its loop goes on for ever.
NeverReturns == [found |-> FALSE, page |-> <<>>, returns |-> FALSE]

\* Mutant: the site-path index is probed before the source-path index.
ResolveAbsolute_siteFirst(reg, parts) ==
    LET rel == IF parts = <<>> THEN <<>> ELSE NormPath(parts)
        by_src == PagesBySrcRelpath(reg)
        by_site == PagesBySitePath(reg)
    IN  IF rel \in DOMAIN by_site THEN Found(by_site[rel])
        ELSE IF rel \in DOMAIN by_src THEN Found(by_src[rel])
        ELSE IF (<<"static">> \o rel) \in DOMAIN by_src
        THEN Found(by_src[<<"static">> \o rel])
        ELSE PageNotFound

\* resolve_path, target.startswith("/"): parts are the components after the
\* leading slashes.
ResolveAbsolute(reg, parts) ==
    LET rel == IF parts = <<>> THEN <<>> ELSE NormPath(parts)
        by_src == PagesBySrcRelpath(reg)
        by_site == PagesBySitePath(reg)
    IN  IF rel \in DOMAIN by_src THEN Found(by_src[rel])
        ELSE IF rel \in DOMAIN by_site THEN Found(by_site[rel])
        ELSE IF (<<"static">> \o rel) \in DOMAIN by_src
        THEN Found(by_src[<<"static">> \o rel])
        ELSE PageNotFound

\* The directories the upward walk visits from root: root, then each
\* os.path.dirname up to "", or up to "/", which is its own dirname and is
\* then visited again and again.
RECURSIVE WalkRoots_rootFirst(_)
WalkRoots_rootFirst(root) ==
    IF Dirname(root) = root THEN <<root>>
    ELSE Append(WalkRoots_rootFirst(Dirname(root)), root)

RECURSIVE WalkRoots(_)
WalkRoots(root) ==
    IF Dirname(root) = root THEN <<root>> ELSE <<root>> \o WalkRoots(Dirname(root))

\* "while True: target_relpath = normpath(join(root, target)) ...": the first
\* directory of the walk under which the index has the target; "if not
\* root: break" ends the walk at "" only.
RECURSIVE ProbeRoots(_, _, _)
ProbeRoots(index, roots, parts) ==
    IF roots = <<>> THEN PageNotFound
    ELSE LET n == NormPath(Head(roots) \o parts)
             rel == IF n = Dot THEN <<>> ELSE n
         IN  IF rel \in DOMAIN index THEN Found(index[rel])
             ELSE IF Head(roots) = <<Slash>> THEN NeverReturns
             ELSE ProbeRoots(index, Tail(roots), parts)

\* resolve_path, relative target, from page = [src, site_path] (src is NoSrc
\* for an autogenerated page).
NoSrc == <<"<no source>">>

\* Mutant: the site paths are walked before the source paths.
ResolveRelative_siteFirst(reg, page, parts) ==
    LET by_site == ProbeRoots(PagesBySitePath(reg), WalkRoots(page.site_path), parts)
    IN  IF by_site.found \/ page.src = NoSrc THEN by_site
        ELSE ProbeRoots(PagesBySrcRelpath(reg), WalkRoots(Dirname(page.src)), parts)

ResolveRelative(reg, page, parts) ==
    LET by_source == IF page.src = NoSrc THEN PageNotFound
                     ELSE ProbeRoots(PagesBySrcRelpath(reg),
                                     WalkRoots(Dirname(page.src)), parts)
    IN  IF by_source.found THEN by_source
        ELSE ProbeRoots(PagesBySitePath(reg), WalkRoots(page.site_path), parts)

resolve_path(reg, page, target) ==
    IF target.abs THEN ResolveAbsolute(reg, target.parts)
    ELSE ResolveRelative(reg, page, target.parts)

\* url_for(path) of a site with one site_url: "/" + page.meta["site_path"].
url_for(reg, found) == [abs |-> TRUE, parts |-> reg[found.page]]

\* Mutant: PageNotFoundError is not caught.
OnPageNotFound_propagates(url) ==
    [url |-> url, raised |-> TRUE, attempted |-> TRUE, same |-> TRUE]

\* "except PageNotFoundError as e: log.warn(...); return url"
OnPageNotFound(url) == [url |-> url, raised |-> FALSE, attempted |-> TRUE, same |-> TRUE]

\* Page.resolve_url on url = [scheme, netloc, path, fragment] (urlparse): the
\* URL returned, whether an exception left the call, whether resolve_path
\* was called, and whether the object returned is the argument itself.
resolve_url(reg, page, url) ==
    IF url.scheme # "" \/ url.netloc # ""
    THEN [url |-> url, raised |-> FALSE, attempted |-> FALSE, same |-> TRUE]
    ELSE IF ~url.path.abs /\ url.path.parts = <<>>
    THEN [url |-> url, raised |-> FALSE, attempted |-> FALSE, same |-> TRUE]
    ELSE CHOOSE result \in
             {IF r = NeverReturns THEN NeverReturns
              ELSE IF ~r.found THEN OnPageNotFound(url)
              ELSE [url |-> [scheme |-> "", netloc |-> "", path |-> url_for(reg, r),
                             fragment |-> url.fragment],
                    raised |-> FALSE, attempted |-> TRUE, same |-> FALSE] :
                 r \in {resolve_path(reg, page, url.path)}} : TRUE

NoCall == [kind |-> "none"]

NoResolve ==
    /\ registered = EmptyMeta
    /\ resolve_call = NoCall

(***************************************************************************)
(* MarkdownPages.render_page and its LinkResolver.  The body of a page is   *)
(* given by the links it holds, in document order; the output of           *)
(* markdown.convert by the body and the URL each link was rewritten to.    *)
(***************************************************************************)
\* None, where a URL is expected.
NoUrl == [none |-> TRUE]

\* dict.get on a dict kept as the sequence of its items.
RECURSIVE DictGet(_, _)
DictGet(items, key) ==
    IF items = <<>> THEN NoUrl
    ELSE IF Head(items)[1] = key THEN Head(items)[2]
    ELSE DictGet(Tail(items), key)

\* LinkResolver.resolve_url(url) with self.substituted = subst: the value
\* returned and the dict afterwards.
LinkResolver_resolve_url(subst, reg, page, url) ==
    IF DictGet(subst, url) # NoUrl THEN [value |-> DictGet(subst, url), subst |-> subst]
    ELSE CHOOSE result \in
             {IF r.same THEN [value |-> NoUrl, subst |-> subst]
              ELSE [value |-> r.url, subst |-> Append(subst, <<url, r.url>>)] :
                 r \in {resolve_url(reg, page, url)}} : TRUE

\* "for src, dest in cached['paths']: if resolve_url(src) != dest: cached =
\* None; break"
RECURSIVE PathsStillResolve(_, _, _, _)
PathsStillResolve(paths, subst, reg, page) ==
    IF paths = <<>> THEN [ok |-> TRUE, subst |-> subst]
    ELSE CHOOSE result \in
             {IF r.value # Head(paths)[2] THEN [ok |-> FALSE, subst |-> r.subst]
              ELSE PathsStillResolve(Tail(paths), r.subst, reg, page) :
                 r \in {LinkResolver_resolve_url(subst, reg, page, Head(paths)[1])}} : TRUE

\* markdown.convert(content): LinkResolver.run rewrites each link whose
\* resolution is not None.
RECURSIVE Convert(_, _, _, _, _)
Convert(links, out, subst, reg, page) ==
    IF links = <<>> THEN [rendered |-> out, subst |-> subst]
    ELSE CHOOSE result \in
             {Convert(Tail(links),
                      Append(out, IF r.value = NoUrl THEN Head(links) ELSE r.value),
                      r.subst, reg, page) :
                 r \in {LinkResolver_resolve_url(subst, reg, page, Head(links))}} : TRUE

\* Mutant: the stored mtime is not compared with the file's.
MtimeMatches_always(cached, mtime) == TRUE
MtimeMatches(cached, mtime) == cached.mtime = mtime

\* render_page(page) with the cache entries in cache (relpath -> entry), the
\* source file having the given mtime and links.
render_page(cache, reg, page, mtime, links) ==
    LET present == page.src \in DOMAIN cache /\ MtimeMatches(cache[page.src], mtime)
    IN  CHOOSE result \in
            {IF present /\ check.ok
             THEN [from_cache |-> TRUE, rendered |-> cache[page.src].rendered,
                   cache |-> cache]
             ELSE CHOOSE fresh \in
                      {[from_cache |-> FALSE, rendered |-> conv.rendered,
                        cache |-> Update(cache, Only(page.src,
                                      [mtime |-> mtime, rendered |-> conv.rendered,
                                       paths |-> conv.subst]))] :
                          conv \in {Convert(links, <<>>, check.subst, reg, page)}} : TRUE :
                check \in {IF present
                           THEN PathsStillResolve(cache[page.src].paths, <<>>, reg, page)
                           ELSE [ok |-> FALSE, subst |-> <<>>]}} : TRUE

NoRender == [from_cache |-> FALSE, rendered |-> <<>>]

NoCache ==
    /\ render_cache = EmptyMeta
    /\ src_mtime = 1
    /\ src_links = <<>>
    /\ renders = 0
    /\ last_render = NoRender

(***************************************************************************)
(* TaxonomyPage.finalize and CategoryPage, for the taxonomy "tags".  A     *)
(* page is [site_path, date, tags, title, series_title], tags being the    *)
(* value under the taxonomy key: [str |-> s] a scalar, [list |-> <<...>>]  *)
(* a list, and [cats |-> <<...>>] the category pages finalize puts in its  *)
(* place, each named by its category.  A title is [text |-> s], and        *)
(* series_title is NoTitle where meta has none.  Pages are told apart by   *)
(* their site path.                                                        *)
(***************************************************************************)
\* None, where a title is expected.
NoTitle == [none |-> TRUE]
\* None, where a page is expected.
NoPage == [none |-> TRUE]

\* The category names, in the order sorted() gives them.
TagNames == <<"x", "y">>

\* "if not categories: continue"
IsFalsy(tags) == tags = [str |-> ""] \/ tags = [list |-> <<>>]

\* "if isinstance(categories, str): categories = (categories,)"
AsTuple(tags) == IF "str" \in DOMAIN tags THEN <<tags.str>> ELSE tags.list

\* The appends "by_category[category].append(page)" of the first loop, in
\* order, as <<category, site path>>.
RECURSIVE Filed(_)
Filed(all_pages) ==
    IF all_pages = <<>> THEN <<>>
    ELSE (IF IsFalsy(Head(all_pages).tags) THEN <<>>
          ELSE [i \in 1..Len(AsTuple(Head(all_pages).tags)) |->
                   <<AsTuple(Head(all_pages).tags)[i], Head(all_pages).site_path>>])
         \o Filed(Tail(all_pages))

\* The elements of s, each kept where it first occurs.
FirstSeen(s) ==
    LET keep == {i \in DOMAIN s : \A j \in 1..(i - 1) : s[j] # s[i]}
    IN  [k \in 1..Cardinality(keep) |->
            s[CHOOSE i \in keep : Cardinality({j \in keep : j < i}) = k - 1]]

\* by_category.keys(), in dict order.
ByCategoryKeys(all_pages) == FirstSeen([i \in DOMAIN Filed(all_pages) |-> Filed(all_pages)[i][1]])

\* by_category[category]
ByCategory(all_pages, category) ==
    LET f == SelectSeq(Filed(all_pages), LAMBDA e : e[1] = category)
    IN  [i \in DOMAIN f |-> f[i][2]]

PageAt(all_pages, site_path) == CHOOSE p \in Range(all_pages) : p.site_path = site_path

\* Mutant: every page sorts alike.
DateKey_none(page) == 0
\* "key=lambda p: p.meta['date']"
DateKey(page) == page.date

\* "pages.sort(key=...)": ascending, pages with equal keys keeping their order.
SortPages(members, all_pages) ==
    LET key(i) == DateKey(PageAt(all_pages, members[i]))
        pos(i) == 1 + Cardinality({j \in DOMAIN members : key(j) < key(i)})
                    + Cardinality({j \in 1..(i - 1) : key(j) = key(i)})
    IN  [k \in DOMAIN members |-> members[CHOOSE i \in DOMAIN members : pos(i) = k]]

\* "{page.site_path: idx for idx, page in enumerate(self.meta['pages'])}"
PageIndex(members) ==
    [sp \in Range(members) |->
        (CHOOSE i \in DOMAIN members :
            members[i] = sp /\ \A j \in (i + 1)..Len(members) : members[j] # sp) - 1]

\* CategoryPage(self, category, meta=category_meta)
CategoryPage(category, members, all_pages) ==
    [name |-> category,
     site_path |-> <<"tags", category>>,
     pages |-> members,
     date |-> PageAt(all_pages, members[Len(members)]).date,
     archive |-> <<"tags", category, "archive">>,
     page_index |-> PageIndex(members)]

\* TaxonomyPage.finalize() on site.pages_by_metadata[self.name] = all_pages.
finalize(all_pages) ==
    LET keys == ByCategoryKeys(all_pages)
        cats == [c \in Range(keys) |->
                    CategoryPage(c, SortPages(ByCategory(all_pages, c), all_pages),
                                 all_pages)]
    IN  [categories |-> cats,
         generated |-> [i \in 1..(2 * Len(keys)) |->
                           IF i % 2 = 1 THEN cats[keys[(i + 1) \div 2]].site_path
                           ELSE cats[keys[i \div 2]].archive],
         tagged |-> [i \in DOMAIN all_pages |->
                        IF IsFalsy(all_pages[i].tags) THEN all_pages[i]
                        ELSE [all_pages[i] EXCEPT !.tags = [cats |-> AsTuple(all_pages[i].tags)]]],
         taxonomy_pages |-> SelectSeq(TagNames, LAMBDA c : c \in Range(keys))]

NoSequence == [none |-> TRUE]

\* Mutant: the index counts from zero.
SequenceIndex_zeroBased(idx) == idx
\* "'index': idx + 1"
SequenceIndex(idx) == idx + 1

\* "for p in pages: title = p.meta.get('series_title'); if title is not None:
\* series_title = title; if p == page: break", from pages[0].meta["title"].
SeriesTitle(members, all_pages, site_path) ==
    LET stop == IF site_path \in Range(members) THEN IndexOf(members, site_path)
                ELSE Len(members)
        set == {i \in 1..stop : PageAt(all_pages, members[i]).series_title # NoTitle}
    IN  IF set = {} THEN PageAt(all_pages, members[1]).title
        ELSE PageAt(all_pages, members[CHOOSE i \in set : \A j \in set : j <= i]).series_title

\* CategoryPage.sequence(page), for the page with the given site path, the
\* pages of the site being all_pages; the positions of self.meta["pages"]
\* count from 1 here.
sequence(category_page, all_pages, site_path) ==
    IF site_path \notin DOMAIN category_page.page_index THEN NoSequence
    ELSE LET idx == category_page.page_index[site_path]
             members == category_page.pages
         IN  [title |-> SeriesTitle(members, all_pages, site_path),
              index |-> SequenceIndex(idx),
              length |-> Len(members),
              first |-> members[1],
              last |-> members[Len(members)],
              prev |-> IF idx > 0 THEN [page |-> members[idx]] ELSE NoPage,
              next |-> IF idx < Len(members) - 1 THEN [page |-> members[idx + 2]]
                       ELSE NoPage]

NoSequenceCall == [called |-> FALSE]

NoTaxonomy ==
    /\ tagged = <<>>
    /\ categories = EmptyMeta
    /\ taxonomy_pages = <<>>
    /\ generated = <<>>
    /\ tax_phase = "collecting"
    /\ sequence_call = NoSequenceCall

\* No directory loaded yet.
NoLoad ==
    /\ dir_class = EmptyMeta
    /\ files = EmptyMeta
    /\ disk = EmptyMeta
    /\ load_log = <<>>
    /\ page_log = <<>>
    /\ load_done = <<>>

(***************************************************************************)
(* ContentDir.load of the content directory, on the state acc = [files,    *)
(* load_dir_log, draft_mode, pages, hook_log, added, is_valid_log].        *)
(***************************************************************************)
\* site.add_page(page), the page carrying no hooked metadata.
AddLoadedPage(hooks, acc, page) ==
    LET r == add_page(acc.draft_mode, hooks, acc.pages, acc.hook_log, page, <<>>)
    IN  [acc EXCEPT !.pages = r.pages, !.hook_log = r.hook_log,
                    !.added = Append(@, page)]

\* page.is_valid(): the completed page, the answer, and the call recorded.
Validated(acc, page) ==
    LET r == is_valid(acc.draft_mode, page.meta)
    IN  [ok |-> r.result = "True",
         page |-> [page EXCEPT !.meta = r.meta],
         acc |-> [acc EXCEPT !.is_valid_log = @ \cup {<<page.src_linkpath, r.result>>}]]

\* The pages of the files of S, in the order of Dir.files.  With validates,
\* is_valid() is called on each page and a page it rejects is dropped, its
\* file staying pending; without, every page is passed to add_page as built.
RECURSIVE AddPagesOf(_, _, _, _)
AddPagesOf(S, hooks, acc, validates) ==
    IF S = {} THEN acc
    ELSE LET fname == CHOOSE f \in S : \A g \in S : FileRank(f) <= FileRank(g)
             v == Validated(acc, PageOfFile(fname))
             next == IF ~validates
                     THEN AddLoadedPage(hooks, [acc EXCEPT !.files = @ \ {fname}],
                                        PageOfFile(fname))
                     ELSE IF v.ok
                     THEN AddLoadedPage(hooks, [v.acc EXCEPT !.files = @ \ {fname}], v.page)
                     ELSE v.acc
         IN  AddPagesOf(S \ {fname}, hooks, next, validates)

\* "for handler in ordered(): for page in handler.load_dir(self): add_page(page);
\*  if not self.files: break"
RECURSIVE LoadHandlers(_, _, _)
LoadHandlers(handlers, hooks, acc) ==
    IF handlers = <<>> THEN acc
    ELSE LET h == Head(handlers)
             taken == {f \in acc.files : Claims(h, f)}
             after == AddPagesOf(taken, hooks,
                        [acc EXCEPT !.load_dir_log = Append(@, h)],
                        LoadDirValidates(h))
         IN  IF after.files = {} THEN after
             ELSE LoadHandlers(Tail(handlers), hooks, after)

\* "for fname, f in self.files.items(): p = Asset(...); if not p.is_valid():
\*  continue; add_page(p)": the files stay in Dir.files.
LoadAssets(hooks, acc) ==
    [AddPagesOf(acc.files, hooks, acc, TRUE) EXCEPT !.files = acc.files]

(***************************************************************************)
(* Initial state: a freshly constructed Site with its Features registry.   *)
(***************************************************************************)
ContentFiles == {"index.md", "series.taxonomy", "blog.links", "logo.png"}

\* One declared ordering entry: <<class, "before" | "after", name>>.  A class
\* does not list its own name.
DeclEntries ==
    {e \in FeatureNames \X {"before", "after"} \X DepNames : e[1] # e[3]}

NoEntry == <<>>

\* The RUN_BEFORE (kind "before") or RUN_AFTER (kind "after") attribute of each
\* class, given the entries the classes declare.
Declared(slots, kind) ==
    [n \in FeatureNames |->
        {e[3] : e \in {s \in Range(slots) : s # NoEntry /\ s[1] = n /\ s[2] = kind}}]

Init ==
    /\ feature_classes = <<>>
    /\ \E slots \in [1..MaxDecls -> DeclEntries \cup {NoEntry}] :
          /\ RUN_BEFORE = Declared(slots, "before")
          /\ RUN_AFTER = Declared(slots, "after")
    /\ features = {}
    /\ instantiations = [n \in FeatureNames |-> 0]
    /\ sorted = <<>>
    /\ metadata_hooks = [m \in MetaNames |-> <<>>]
    /\ phase = "registering"
    /\ dir_files = ContentFiles
    /\ dir_meta_log = <<>>
    /\ load_dir_log = <<>>
    /\ finalize_log = <<>>
    /\ is_valid_log = {}
    /\ DRAFT_MODE = FALSE
    /\ pages = EmptyMeta
    /\ hook_log = <<>>
    /\ added = <<>>
    /\ pages2 = EmptyMeta
    /\ hook_log2 = <<>>
    /\ NoScan
    /\ NoValidation
    /\ NoResolve
    /\ NoCache
    /\ NoTaxonomy
    /\ NoLoad

(***************************************************************************)
(* Features.load_feature_dir, one FEATURES entry: feature_classes[name] =  *)
(* cls.  Each name has one class in the model (its RUN_BEFORE and          *)
(* RUN_AFTER are fixed from the start), so registering a name again would  *)
(* replace the class by itself and is left out.                            *)
(***************************************************************************)
RegisterFeature(name) ==
    /\ phase = "registering"
    /\ name \notin Range(feature_classes)
    /\ feature_classes' = Append(feature_classes, name)
    /\ UNCHANGED <<RUN_BEFORE, RUN_AFTER, features, instantiations, sorted,
                   metadata_hooks>>
    /\ UNCHANGED <<runVars, siteVars, scanVars, validVars, resolveVars, cacheVars, taxVars, loadVars>>

(***************************************************************************)
(* Features.commit                                                         *)
(***************************************************************************)
Commit ==
    /\ phase = "registering"
    /\ LET res == sort_features(feature_classes, RUN_BEFORE, RUN_AFTER)
       IN  IF res.ok
           THEN LET st == CommitLoop(res.order,
                            [features |-> features,
                             instantiations |-> instantiations,
                             sorted |-> <<>>,
                             metadata_hooks |-> metadata_hooks])
                IN  /\ features' = st.features
                    /\ instantiations' = st.instantiations
                    /\ sorted' = st.sorted
                    /\ metadata_hooks' = st.metadata_hooks
                    /\ phase' = "committed"
           ELSE \* toposort raises: self.sorted is already [], nothing is instantiated
                /\ sorted' = <<>>
                /\ UNCHANGED <<features, instantiations, metadata_hooks>>
                /\ phase' = "aborted"
    /\ UNCHANGED <<feature_classes, RUN_BEFORE, RUN_AFTER>>
    /\ UNCHANGED <<dir_files, dir_meta_log, load_dir_log, finalize_log, is_valid_log>>
    /\ UNCHANGED <<siteVars, scanVars, validVars, resolveVars, cacheVars, taxVars, loadVars>>

(***************************************************************************)
(* Dir.scan, the hook loop: "for feature in self.site.features.ordered():  *)
(* feature.load_dir_meta(self)".                                           *)
(***************************************************************************)
ScanContents ==
    /\ phase = "committed"
    /\ dir_meta_log' = dir_meta_log \o sorted
    /\ phase' = "scanned"
    /\ UNCHANGED <<dir_files, load_dir_log, finalize_log, is_valid_log>>
    /\ UNCHANGED <<schedVars, siteVars, scanVars, validVars, resolveVars, cacheVars, taxVars, loadVars>>

(***************************************************************************)
(* ContentDir.load of the content directory: the handlers in scheduler     *)
(* order, then every file left as a static asset.  (No file of the         *)
(* directory is marked as an asset by its metadata.)                       *)
(***************************************************************************)
LoadContents ==
    /\ phase = "scanned"
    /\ LET claimed == LoadHandlers(sorted, metadata_hooks,
                        [files |-> dir_files, load_dir_log |-> load_dir_log,
                         draft_mode |-> DRAFT_MODE, pages |-> pages,
                         hook_log |-> hook_log, added |-> added,
                         is_valid_log |-> is_valid_log])
           done == LoadAssets(metadata_hooks, claimed)
       IN  /\ dir_files' = done.files
           /\ load_dir_log' = done.load_dir_log
           /\ pages' = done.pages
           /\ hook_log' = done.hook_log
           /\ added' = done.added
           /\ is_valid_log' = done.is_valid_log
    /\ phase' = "loaded"
    /\ UNCHANGED <<dir_meta_log, finalize_log, DRAFT_MODE, pages2, hook_log2>>
    /\ UNCHANGED <<schedVars, scanVars, validVars, resolveVars, cacheVars, taxVars, loadVars>>

(***************************************************************************)
(* The pages a feature's finalize hook creates.                            *)
(***************************************************************************)
\* Metadata of a page created by a finalize hook.
GeneratedMeta(path) ==
    [k \in {"site_name", "site_path", "site_url"} |->
        CASE k = "site_name" -> "Site"
          [] k = "site_path" -> path
          [] OTHER -> "https://example.org"]

\* The categories of the taxonomy "series": the values listed by the
\* registered pages.
SeriesValues(reg) ==
    {reg[p].meta["series"] : p \in {q \in DOMAIN reg : "series" \in DOMAIN reg[q].meta}}

\* The pages created by the hook, in creation order, each with: whether
\* is_valid() is called on it, and whether it is added when is_valid()
\* answers False.
\*  B, as TaxonomyPage.finalize: one category page and one archive page per
\*     category, when B has loaded the taxonomy file; is_valid() is called and
\*     the page added whatever the answer.
\*  C, as LinkIndexPage.finalize: one page per link tag, when C has loaded
\*     the .links file and no page has that path; is_valid() is not called.
FinalizePages(feature, reg) ==
    CASE feature = "B" /\ "series.taxonomy" \in DOMAIN reg /\ SeriesValues(reg) # {} ->
            <<[page |-> [src_linkpath |-> "series/s1",
                         meta |-> GeneratedMeta(<<"series", "s1">>)],
               validates |-> TRUE, add_anyway |-> TRUE],
              [page |-> [src_linkpath |-> "series/s1/archive",
                         meta |-> GeneratedMeta(<<"series", "s1", "archive">>)],
               validates |-> TRUE, add_anyway |-> TRUE]>>
      [] feature = "C" /\ "blog.links" \in DOMAIN reg /\ "blog/x-links" \notin DOMAIN reg ->
            <<[page |-> [src_linkpath |-> "blog/x-links",
                         meta |-> GeneratedMeta(<<"blog", "x-links">>)],
               validates |-> FALSE, add_anyway |-> TRUE]>>
      [] OTHER -> <<>>

RECURSIVE AddGenerated(_, _, _)
AddGenerated(todo, hooks, acc) ==
    IF todo = <<>> THEN acc
    ELSE LET g == Head(todo)
             v == Validated(acc, g.page)
             next == IF ~g.validates THEN AddLoadedPage(hooks, acc, g.page)
                     ELSE IF v.ok \/ g.add_anyway THEN AddLoadedPage(hooks, v.acc, v.page)
                     ELSE v.acc
         IN  AddGenerated(Tail(todo), hooks, next)

\* Site.analyze runs once load() has returned.
AnalyzeStarts_duringLoad(ph) == ph \in {"scanned", "loaded"}
AnalyzeStarts(ph) == ph = "loaded"

(***************************************************************************)
(* Site.analyze: one iteration of "for feature in ordered():               *)
(* feature.finalize()"; the hook returns before the next one is called.    *)
(***************************************************************************)
Finalize ==
    /\ AnalyzeStarts(phase)
    /\ Len(finalize_log) < Len(sorted)
    /\ LET feature == sorted[Len(finalize_log) + 1]
           done == AddGenerated(FinalizePages(feature, pages), metadata_hooks,
                        [files |-> dir_files, load_dir_log |-> load_dir_log,
                         draft_mode |-> DRAFT_MODE, pages |-> pages,
                         hook_log |-> hook_log, added |-> added,
                         is_valid_log |-> is_valid_log])
       IN  /\ finalize_log' = Append(finalize_log, feature)
           /\ pages' = done.pages
           /\ hook_log' = done.hook_log
           /\ added' = done.added
           /\ is_valid_log' = done.is_valid_log
    /\ UNCHANGED <<phase, dir_files, dir_meta_log, load_dir_log>>
    /\ UNCHANGED <<DRAFT_MODE, pages2, hook_log2>>
    /\ UNCHANGED <<schedVars, scanVars, validVars, resolveVars, cacheVars, taxVars, loadVars>>

AnalyzeDone ==
    /\ phase = "loaded"
    /\ Len(finalize_log) = Len(sorted)
    /\ phase' = "analyzed"
    /\ UNCHANGED <<dir_files, dir_meta_log, load_dir_log, finalize_log, is_valid_log>>
    /\ UNCHANGED <<schedVars, siteVars, scanVars, validVars, resolveVars, cacheVars, taxVars, loadVars>>

Next ==
    \/ \E name \in FeatureNames : RegisterFeature(name)
    \/ Commit
    \/ ScanContents
    \/ LoadContents
    \/ Finalize
    \/ AnalyzeDone

Spec == Init /\ [][Next]_vars

(***************************************************************************)
(* SpecSite: Site.add_page called on a committed site, page after page,    *)
(* by the loaders, by finalize hooks or directly.  Two runs of the site    *)
(* receive the same calls; each visits its set of triggered features in an *)
(* order of its own.                                                       *)
(***************************************************************************)
\* Page dates: before, at and after the generation time.
Dates == {GenerationTime - 1, GenerationTime, GenerationTime + 1}

\* Metadata with the given names set; withDate tells whether "date" is among
\* them, with the given value.
MakeMeta(withDate, date, names) ==
    [k \in (IF withDate THEN {"date"} ELSE {}) \cup names |->
        IF k = "date" THEN date ELSE 0]

PageMetas ==
    {MakeMeta(TRUE, date, names) : date \in Dates, names \in {{}, {"tags", "links"}}}
    \cup {MakeMeta(FALSE, GenerationTime, names) : names \in {{}, {"tags", "links"}}}

PageUniverse ==
    {[src_linkpath |-> path, meta |-> meta] :
        path \in {"blog/post", "about"}, meta \in PageMetas}

\* The classes of the sites SpecSite starts from: all registered, one of them
\* declaring one RUN_BEFORE entry.
SiteDecls == {e \in DeclEntries : e[1] \in {"A", "B"} /\ e[2] = "before"}

\* The scheduler after commit() on such a site.
CommittedSite ==
    /\ feature_classes = FeatureOrder
    /\ \E e \in SiteDecls :
          LET slots == [i \in 1..MaxDecls |-> IF i = 1 THEN e ELSE NoEntry]
          IN  /\ RUN_BEFORE = Declared(slots, "before")
              /\ RUN_AFTER = Declared(slots, "after")
    /\ LET res == sort_features(feature_classes, RUN_BEFORE, RUN_AFTER)
           st == CommitLoop(res.order,
                    [features |-> {},
                     instantiations |-> [n \in FeatureNames |-> 0],
                     sorted |-> <<>>,
                     metadata_hooks |-> [m \in MetaNames |-> <<>>]])
       IN  /\ res.ok
           /\ features = st.features
           /\ instantiations = st.instantiations
           /\ sorted = st.sorted
           /\ metadata_hooks = st.metadata_hooks

SiteInit ==
    /\ CommittedSite
    /\ phase = "scanned"
    /\ dir_files = ContentFiles
    /\ dir_meta_log = sorted
    /\ load_dir_log = <<>>
    /\ finalize_log = <<>>
    /\ is_valid_log = {}
    /\ DRAFT_MODE \in BOOLEAN
    /\ pages = EmptyMeta
    /\ hook_log = <<>>
    /\ added = <<>>
    /\ pages2 = EmptyMeta
    /\ hook_log2 = <<>>
    /\ NoScan
    /\ NoValidation
    /\ NoResolve
    /\ NoCache
    /\ NoTaxonomy
    /\ NoLoad

SiteAddPage(page) ==
    /\ Len(added) < MaxPages
    /\ \E order \in IterationOrders(TriggerFeatures(metadata_hooks, page)) :
          LET r == add_page(DRAFT_MODE, metadata_hooks, pages, hook_log, page, order)
          IN  /\ pages' = r.pages
              /\ hook_log' = r.hook_log
    /\ \E order \in IterationOrders(TriggerFeatures(metadata_hooks, page)) :
          LET r == add_page(DRAFT_MODE, metadata_hooks, pages2, hook_log2, page, order)
          IN  /\ pages2' = r.pages
              /\ hook_log2' = r.hook_log
    /\ added' = Append(added, page)
    /\ UNCHANGED DRAFT_MODE
    /\ UNCHANGED <<schedVars, runVars, scanVars, validVars, resolveVars, cacheVars, taxVars, loadVars>>

SiteNext == \E page \in PageUniverse : SiteAddPage(page)

SpecSite == SiteInit /\ [][SiteNext]_vars

(***************************************************************************)
(* SpecScan: Dir.scan of the content tree of a committed site.  The scan   *)
(* of a subdirectory runs inside the scan of its parent, after the parent  *)
(* has computed the metadata of all its children and constructed the       *)
(* subdirectory's Dir on the very dict it keeps in file_meta.              *)
(***************************************************************************)
MetaRules ==
    {[pattern |-> [kind |-> "ext", arg |-> "md"], meta |-> Only("color", "blue")],
     [pattern |-> [kind |-> "any", arg |-> "*"], meta |-> Only("color", "green")],
     [pattern |-> [kind |-> "ext", arg |-> "md"], meta |-> Only("site_path", <<"moved">>)],
     [pattern |-> [kind |-> "name", arg |-> "blog"],
      meta |-> Update(Only("color", "blue"), Only("site_path", <<"moved">>))],
     [pattern |-> [kind |-> "name", arg |-> "blog"], meta |-> Only("links", "all")]}

\* The rules of one "files" or "dirs" mapping, in the order of the mapping: a
\* mapping has each pattern once.
RuleLists(n) ==
    {s \in UNION {[1..k -> MetaRules] : k \in 0..n} :
        \A i, j \in 1..Len(s) : i # j => s[i].pattern # s[j].pattern}

RootConfigs ==
    {[dirs |-> ds, files |-> fs, keys |-> EmptyMeta, present |-> TRUE] :
        <<ds, fs>> \in {p \in RuleLists(MaxRules) \X RuleLists(MaxRules) :
                            Len(p[1]) + Len(p[2]) <= MaxRules}}

\* Front matter of the root index.md: none, or a title, an inherited key and
\* one more file rule.
IndexConfigs ==
    {NoConfig,
     [dirs |-> <<>>,
      files |-> <<[pattern |-> [kind |-> "ext", arg |-> "md"],
                   meta |-> Only("color", "teal")]>>,
      keys |-> Update(Only("title", "Home"), Only("color", "teal")),
      present |-> TRUE]}

\* .staticsite of the subdirectory: none, or an inherited and a non-inherited key.
BlogConfigs ==
    {NoConfig,
     [dirs |-> <<>>, files |-> <<>>,
      keys |-> Update(Only("color", "pink"), Only("links", "none")),
      present |-> TRUE]}

\* Metadata the root Dir is constructed with.
RootMetas ==
    {Only("site_path", <<>>),
     Update(Update(Only("site_path", <<>>), Only("color", "red")),
            Only("site_name", "Site"))}

ScanInit ==
    /\ CommittedSite
    /\ phase = "committed"
    /\ dir_files = ContentFiles
    /\ dir_meta_log = <<>>
    /\ load_dir_log = <<>>
    /\ finalize_log = <<>>
    /\ is_valid_log = {}
    /\ DRAFT_MODE = FALSE
    /\ pages = EmptyMeta
    /\ hook_log = <<>>
    /\ added = <<>>
    /\ pages2 = EmptyMeta
    /\ hook_log2 = <<>>
    /\ \E rc \in RootConfigs \cup {NoConfig}, bc \in BlogConfigs :
          dir_config = [d \in DirIds |-> IF d = RootDir THEN rc ELSE bc]
    /\ \E ic \in IndexConfigs :
          index_front_matter = [d \in DirIds |-> IF d = RootDir THEN ic ELSE NoConfig]
    /\ \E rm \in RootMetas : dir_meta = Only(RootDir, rm)
    /\ dir_rules = Only(RootDir, <<>>)
    /\ file_rules = Only(RootDir, <<>>)
    /\ file_meta = Only(RootDir, EmptyMeta)
    /\ site_dir_meta = {}
    /\ scan_done = <<>>
    /\ NoValidation
    /\ NoResolve
    /\ NoCache
    /\ NoTaxonomy
    /\ NoLoad

\* Dir.scan of directory d, up to the recursion into its subdirectories.
ScanDir(d) ==
    /\ d \in DOMAIN dir_meta
    /\ d \notin Range(scan_done)
    /\ LET st == ScanOwnConfig(d, sorted, dir_config[d], index_front_matter[d],
                    [meta |-> dir_meta[d], dir_rules |-> dir_rules[d],
                     file_rules |-> file_rules[d]])
           kids == {Append(d, n) : n \in Subdirs(d)}
       IN  /\ dir_meta' =
                Update(Update(dir_meta, Only(d, st.meta)),
                       [c \in kids |-> ApplyRules(st.meta, st.dir_rules, c[Len(c)])])
           /\ dir_rules' =
                Update(Update(dir_rules, Only(d, st.dir_rules)), [c \in kids |-> <<>>])
           /\ file_rules' =
                Update(Update(file_rules, Only(d, st.file_rules)), [c \in kids |-> <<>>])
           /\ file_meta' =
                Update(Update(file_meta,
                              Only(d, [f \in Files(d) |-> ApplyRules(st.meta, st.file_rules, f)])),
                       [c \in kids |-> EmptyMeta])
    /\ site_dir_meta' = site_dir_meta \cup {d}
    /\ scan_done' = Append(scan_done, d)
    /\ dir_meta_log' = dir_meta_log \o sorted
    /\ UNCHANGED <<dir_config, index_front_matter>>
    /\ UNCHANGED <<phase, dir_files, load_dir_log, finalize_log, is_valid_log>>
    /\ UNCHANGED <<schedVars, siteVars, validVars, resolveVars, cacheVars, taxVars, loadVars>>

ScanNext == \E d \in DirIds : ScanDir(d)

SpecScan == ScanInit /\ [][ScanNext]_vars

\* Dir.file_meta[name] of directory d: the entry of a subdirectory is the
\* dict the subdirectory's Dir has as its meta.
ChildMeta(d, name) ==
    IF name \in Subdirs(d) THEN dir_meta[Append(d, name)] ELSE file_meta[d][name]

(***************************************************************************)
(* SpecValid: Page.is_valid called on freshly constructed pages.           *)
(***************************************************************************)
SitePaths == {<<"a">>, <<"/", "a">>, <<"/", "/", "a">>}

PageMetaOf(hasPath, path, hasUrl, hasDate, date, hasTitle, hasTemplate) ==
    [k \in {"site_name"}
           \cup (IF hasPath THEN {"site_path"} ELSE {})
           \cup (IF hasUrl THEN {"site_url"} ELSE {})
           \cup (IF hasDate THEN {"date"} ELSE {})
           \cup (IF hasTitle THEN {"title"} ELSE {})
           \cup (IF hasTemplate THEN {"template"} ELSE {}) |->
        CASE k = "site_name" -> "Site"
          [] k = "site_path" -> path
          [] k = "site_url" -> "https://example.org"
          [] k = "date" -> date
          [] k = "title" -> "A page"
          [] OTHER -> "blog.html"]

ValidMetas ==
    {PageMetaOf(hp, p, hu, hd, d, ht, htp) :
        hp \in BOOLEAN, p \in SitePaths, hu \in BOOLEAN, hd \in BOOLEAN,
        d \in Dates, ht \in BOOLEAN, htp \in BOOLEAN}

ValidInit ==
    /\ CommittedSite
    /\ phase = "scanned"
    /\ dir_files = ContentFiles
    /\ dir_meta_log = sorted
    /\ load_dir_log = <<>>
    /\ finalize_log = <<>>
    /\ is_valid_log = {}
    /\ DRAFT_MODE \in BOOLEAN
    /\ pages = EmptyMeta
    /\ hook_log = <<>>
    /\ added = <<>>
    /\ pages2 = EmptyMeta
    /\ hook_log2 = <<>>
    /\ NoScan
    /\ page_in \in ValidMetas
    /\ page_meta = page_in
    /\ is_valid_result = "not called"
    /\ NoResolve
    /\ NoCache
    /\ NoTaxonomy
    /\ NoLoad

\* page.is_valid()
IsValid ==
    /\ is_valid_result = "not called"
    /\ LET r == is_valid(DRAFT_MODE, page_meta)
       IN  /\ is_valid_result' = r.result
           /\ page_meta' = r.meta
    /\ UNCHANGED page_in
    /\ UNCHANGED <<schedVars, runVars, siteVars, scanVars, resolveVars, cacheVars, taxVars, loadVars>>

\* The loader constructs its next page.
NewPage(meta) ==
    /\ is_valid_result # "not called"
    /\ page_in' = meta
    /\ page_meta' = meta
    /\ is_valid_result' = "not called"
    /\ UNCHANGED <<schedVars, runVars, siteVars, scanVars, resolveVars, cacheVars, taxVars, loadVars>>

ValidNext == IsValid \/ \E meta \in ValidMetas : NewPage(meta)

SpecValid == ValidInit /\ [][ValidNext]_vars

(***************************************************************************)
(* SpecResolve: resolve_path and resolve_url called on a site whose        *)
(* registry holds any of five pages.                                       *)
(***************************************************************************)
\* Source path -> site path of the pages a site can hold.  The site path of
\* x.md is the source path of another page.
SitePathOf ==
    [src \in {<<"a", "b.md">>, <<"a", "sibling">>, <<"sibling">>, <<"x.md">>, <<"y.md">>,
              <<"static", "sibling">>} |->
        CASE src = <<"a", "b.md">> -> <<"a", "b">>
          [] src = <<"a", "sibling">> -> <<"a", "sib">>
          [] src = <<"sibling">> -> <<"top">>
          [] src = <<"x.md">> -> <<"sibling">>
          [] src = <<"y.md">> -> <<"a", "sibling">>
          [] OTHER -> <<"st">>]

Registries == {[src \in S |-> SitePathOf[src]] : S \in SUBSET DOMAIN SitePathOf}

\* The referencing pages: a/b.md, an autogenerated page under a/b/, and
\* a/b.md registered with the site path "/a/b" it was given.
ReferencingPages ==
    {[src |-> <<"a", "b.md">>, site_path |-> <<"a", "b">>],
     [src |-> NoSrc, site_path |-> <<"a", "b", "feed">>],
     [src |-> <<"a", "b.md">>, site_path |-> <<Slash, "a", "b">>]}

Targets ==
    {[abs |-> a, parts |-> p] :
        a \in BOOLEAN,
        p \in {<<"sibling">>, <<"a", "sibling">>, <<"a", "..", "sibling">>,
               <<"..", "sibling">>, <<".", "top">>, <<"missing">>}}
    \cup {[abs |-> TRUE, parts |-> <<>>]}

EmptyPath == [abs |-> FALSE, parts |-> <<>>]

Urls ==
    {[scheme |-> "", netloc |-> "", path |-> t, fragment |-> f] :
        t \in Targets \cup {EmptyPath}, f \in {"", "top"}}
    \cup {[scheme |-> s, netloc |-> n, path |-> t, fragment |-> ""] :
            s \in {"", "https"}, n \in {"", "example.org"},
            t \in {EmptyPath, [abs |-> TRUE, parts |-> <<"sibling">>],
                   [abs |-> FALSE, parts |-> <<"sibling">>]}}

ResolveInit ==
    /\ CommittedSite
    /\ RUN_BEFORE["A"] = {"B"}
    /\ phase = "loaded"
    /\ dir_files = ContentFiles
    /\ dir_meta_log = sorted
    /\ load_dir_log = <<>>
    /\ finalize_log = <<>>
    /\ is_valid_log = {}
    /\ DRAFT_MODE = FALSE
    /\ pages = EmptyMeta
    /\ hook_log = <<>>
    /\ added = <<>>
    /\ pages2 = EmptyMeta
    /\ hook_log2 = <<>>
    /\ NoScan
    /\ NoValidation
    /\ registered \in Registries
    /\ resolve_call = NoCall
    /\ NoCache
    /\ NoTaxonomy
    /\ NoLoad

\* page.resolve_path(target)
ResolvePath(page, target) ==
    /\ resolve_call' = [kind |-> "resolve_path", page |-> page, target |-> target,
                        result |-> resolve_path(registered, page, target)]
    /\ UNCHANGED registered
    /\ UNCHANGED <<schedVars, runVars, siteVars, scanVars, validVars, cacheVars, taxVars, loadVars>>

\* page.resolve_url(url)
ResolveUrl(page, url) ==
    /\ resolve_call' = [kind |-> "resolve_url", page |-> page, target |-> url,
                        result |-> resolve_url(registered, page, url)]
    /\ UNCHANGED registered
    /\ UNCHANGED <<schedVars, runVars, siteVars, scanVars, validVars, cacheVars, taxVars, loadVars>>

ResolveNext ==
    \/ \E page \in ReferencingPages, target \in Targets : ResolvePath(page, target)
    \/ \E page \in ReferencingPages, url \in Urls : ResolveUrl(page, url)

SpecResolve == ResolveInit /\ [][ResolveNext]_vars

(***************************************************************************)
(* SpecCache: the markdown page a/b.md rendered again and again while its  *)
(* source file is touched or edited and pages are added to, removed from   *)
(* and renamed in the registry.                                            *)
(***************************************************************************)
RenderedPage == [src |-> <<"a", "b.md">>, site_path |-> <<"a", "b">>]

LocalUrl(target) == [scheme |-> "", netloc |-> "", path |-> target, fragment |-> ""]

\* The links a body can hold, in document order: a relative reference, a
\* reference by site path, an external URL.
BodyLinks ==
    <<LocalUrl([abs |-> FALSE, parts |-> <<"sibling">>]),
      LocalUrl([abs |-> TRUE, parts |-> <<"top">>]),
      [scheme |-> "https", netloc |-> "example.org",
       path |-> [abs |-> TRUE, parts |-> <<"sibling">>], fragment |-> ""]>>

RECURSIVE Pick(_, _)
Pick(links, keep) ==
    IF links = <<>> THEN <<>>
    ELSE (IF Len(links) \in keep THEN <<Head(links)>> ELSE <<>>)
         \o Pick(Tail(links), keep)

Bodies == {Pick(BodyLinks, keep) : keep \in SUBSET (1..Len(BodyLinks))}

\* The other pages of the site, with the site paths each can have.
OtherSitePaths ==
    [src \in {<<"a", "sibling">>, <<"sibling">>} |->
        IF src = <<"sibling">> THEN {<<"top">>} ELSE {<<"a", "sib">>, <<"a", "sib2">>}]

CacheInit ==
    /\ CommittedSite
    /\ RUN_BEFORE["A"] = {"B"}
    /\ phase = "analyzed"
    /\ dir_files = ContentFiles
    /\ dir_meta_log = sorted
    /\ load_dir_log = <<>>
    /\ finalize_log = <<>>
    /\ is_valid_log = {}
    /\ DRAFT_MODE = FALSE
    /\ pages = EmptyMeta
    /\ hook_log = <<>>
    /\ added = <<>>
    /\ pages2 = EmptyMeta
    /\ hook_log2 = <<>>
    /\ NoScan
    /\ NoValidation
    /\ registered = EmptyMeta
    /\ resolve_call = NoCall
    /\ render_cache = EmptyMeta
    /\ src_mtime = 1
    /\ src_links \in Bodies
    /\ renders = 0
    /\ last_render = NoRender
    /\ NoTaxonomy
    /\ NoLoad

CacheFrame == UNCHANGED <<schedVars, runVars, siteVars, scanVars, validVars, resolve_call, taxVars, loadVars>>

\* markdown.render_page(page)
RenderPage ==
    /\ renders < MaxRenders
    /\ LET r == render_page(render_cache, registered, RenderedPage, src_mtime, src_links)
       IN  /\ render_cache' = r.cache
           /\ last_render' = [from_cache |-> r.from_cache, rendered |-> r.rendered]
    /\ renders' = renders + 1
    /\ UNCHANGED <<src_mtime, src_links, registered>>
    /\ CacheFrame

\* The source file is written again with the same bytes.
TouchFile ==
    /\ src_mtime < MaxMtime
    /\ src_mtime' = src_mtime + 1
    /\ UNCHANGED <<src_links, render_cache, renders, last_render, registered>>
    /\ CacheFrame

\* The source file is edited.
EditFile(links) ==
    /\ src_mtime < MaxMtime
    /\ links # src_links
    /\ src_mtime' = src_mtime + 1
    /\ src_links' = links
    /\ UNCHANGED <<render_cache, renders, last_render, registered>>
    /\ CacheFrame

\* A page appears in the registry.
CacheAddPage(src, sp) ==
    /\ src \notin DOMAIN registered
    /\ registered' = Update(registered, Only(src, sp))
    /\ UNCHANGED cacheVars
    /\ CacheFrame

\* A page leaves the registry.
CacheRemovePage(src) ==
    /\ src \in DOMAIN registered
    /\ registered' = [s \in DOMAIN registered \ {src} |-> registered[s]]
    /\ UNCHANGED cacheVars
    /\ CacheFrame

\* A registered page gets another site path.
CacheRenamePage(src, sp) ==
    /\ src \in DOMAIN registered
    /\ registered[src] # sp
    /\ registered' = [registered EXCEPT ![src] = sp]
    /\ UNCHANGED cacheVars
    /\ CacheFrame

CacheNext ==
    \/ RenderPage
    \/ TouchFile
    \/ \E links \in Bodies : EditFile(links)
    \/ \E src \in DOMAIN OtherSitePaths : \E sp \in OtherSitePaths[src] : CacheAddPage(src, sp)
    \/ \E src \in DOMAIN OtherSitePaths : CacheRemovePage(src)
    \/ \E src \in DOMAIN OtherSitePaths : \E sp \in OtherSitePaths[src] : CacheRenamePage(src, sp)

SpecCache == CacheInit /\ [][CacheNext]_vars

(***************************************************************************)
(* SpecTaxonomy: pages carrying the key "tags" are added to the site, the  *)
(* taxonomy is finalized, and templates ask category pages for the         *)
(* sequence of a page.                                                     *)
(***************************************************************************)
PageIds == {"p1", "p2", "p3"}

\* Dates of registered pages, none after the generation time.
TaxDates == 1..MaxDate

TagValues ==
    {[str |-> "x"], [list |-> <<>>], [list |-> <<"y">>], [list |-> <<"x", "y">>],
     [list |-> <<"x", "x">>]}

\* meta["title"] of each page.
TitleOf(site_path) ==
    [text |-> CASE site_path = "p1" -> "title of p1"
                [] site_path = "p2" -> "title of p2"
                [] OTHER -> "title of p3"]

\* The values meta["series_title"] of a page can have, when it has one.
SeriesTitles(site_path) ==
    {[text |-> ""],
     [text |-> CASE site_path = "p1" -> "series of p1"
                 [] site_path = "p2" -> "series of p2"
                 [] OTHER -> "series of p3"]}

\* Pages without a series_title under every value of the key, and pages of
\* the series "x" with a series_title.
TaggedPages ==
    {[site_path |-> sp, date |-> d, tags |-> t, title |-> TitleOf(sp),
      series_title |-> NoTitle] :
        sp \in PageIds, d \in TaxDates, t \in TagValues}
    \cup UNION {{[site_path |-> sp, date |-> d, tags |-> [str |-> "x"],
                  title |-> TitleOf(sp), series_title |-> st] :
                    d \in TaxDates, st \in SeriesTitles(sp)} : sp \in PageIds}

TaxInit ==
    /\ CommittedSite
    /\ RUN_BEFORE["A"] = {"B"}
    /\ phase = "loaded"
    /\ dir_files = ContentFiles
    /\ dir_meta_log = sorted
    /\ load_dir_log = <<>>
    /\ finalize_log = <<>>
    /\ is_valid_log = {}
    /\ DRAFT_MODE = FALSE
    /\ pages = EmptyMeta
    /\ hook_log = <<>>
    /\ added = <<>>
    /\ pages2 = EmptyMeta
    /\ hook_log2 = <<>>
    /\ NoScan
    /\ NoValidation
    /\ NoResolve
    /\ NoCache
    /\ NoTaxonomy
    /\ NoLoad

TaxFrame ==
    UNCHANGED <<schedVars, runVars, siteVars, scanVars, validVars, resolveVars, cacheVars, loadVars>>

\* site.add_page(page) of a page carrying the key, before finalize.
TaxAddPage(page) ==
    /\ tax_phase = "collecting"
    /\ \A i \in DOMAIN tagged : tagged[i].site_path # page.site_path
    /\ tagged' = Append(tagged, page)
    /\ UNCHANGED <<categories, taxonomy_pages, generated, tax_phase, sequence_call>>
    /\ TaxFrame

\* TaxonomyPage.finalize()
TaxFinalize ==
    /\ tax_phase = "collecting"
    /\ LET r == finalize(tagged)
       IN  /\ categories' = r.categories
           /\ generated' = r.generated
           /\ tagged' = r.tagged
           /\ taxonomy_pages' = r.taxonomy_pages
    /\ tax_phase' = "stable"
    /\ UNCHANGED sequence_call
    /\ TaxFrame

\* category_page.sequence(page)
Sequence(category, site_path) ==
    /\ tax_phase = "stable"
    /\ category \in DOMAIN categories
    /\ sequence_call' = [called |-> TRUE, category |-> category, page |-> site_path,
                         result |-> sequence(categories[category], tagged, site_path)]
    /\ UNCHANGED <<tagged, categories, taxonomy_pages, generated, tax_phase>>
    /\ TaxFrame

TaxNext ==
    \/ \E page \in TaggedPages : TaxAddPage(page)
    \/ TaxFinalize
    \/ \E category \in Range(TagNames) : \E site_path \in PageIds : Sequence(category, site_path)

SpecTaxonomy == TaxInit /\ [][TaxNext]_vars

(***************************************************************************)
(* SpecBuiltin: commit() over feature classes whose constructors read      *)
(* other features through site.features[name], under the RUN_BEFORE and   *)
(* RUN_AFTER these classes declare.  The class C stands for Links, A being *)
(* "data", or for SyndicationFeature, A being "rst" and B "taxonomy"; the  *)
(* names "dirs", "pages" and "autogenerated_pages", which no class is      *)
(* registered under, are UnknownName.  The sort may return any order the   *)
(* graph allows.                                                           *)
(***************************************************************************)
\* The names the constructor of a class looks up in site.features.
ConstructorLookups(name) == IF name = "C" THEN {"A"} ELSE {}

\* RUN_AFTER = ["data"], RUN_BEFORE = ["dirs"] of Links; Data declares nothing.
LinksDeclared ==
    [after |-> [n \in FeatureNames |-> IF n = "C" THEN {"A"} ELSE {}],
     before |-> [n \in FeatureNames |-> IF n = "C" THEN {UnknownName} ELSE {}]]

\* RUN_AFTER = ["pages", "taxonomy"], RUN_BEFORE = ["autogenerated_pages"] of
\* SyndicationFeature, RUN_BEFORE = ["autogenerated_pages"] of
\* TaxonomyFeature; the class looked up orders itself against taxonomy or
\* the marker, or against nothing.
SyndicationDeclared ==
    {[after |-> [n \in FeatureNames |->
                    CASE n = "C" -> {"B", UnknownName} [] n = "B" -> {} [] OTHER -> a],
      before |-> [n \in FeatureNames |->
                    CASE n = "C" -> {UnknownName} [] n = "B" -> {UnknownName} [] OTHER -> b]] :
        a \in SUBSET {"B"}, b \in SUBSET {"B", UnknownName}}

BuiltinInit ==
    /\ feature_classes = <<>>
    /\ \E declared \in {LinksDeclared} \cup SyndicationDeclared :
          /\ RUN_BEFORE = declared.before
          /\ RUN_AFTER = declared.after
    /\ features = {}
    /\ instantiations = [n \in FeatureNames |-> 0]
    /\ sorted = <<>>
    /\ metadata_hooks = [m \in MetaNames |-> <<>>]
    /\ phase = "registering"
    /\ dir_files = ContentFiles
    /\ dir_meta_log = <<>>
    /\ load_dir_log = <<>>
    /\ finalize_log = <<>>
    /\ is_valid_log = {}
    /\ DRAFT_MODE = FALSE
    /\ pages = EmptyMeta
    /\ hook_log = <<>>
    /\ added = <<>>
    /\ pages2 = EmptyMeta
    /\ hook_log2 = <<>>
    /\ NoScan
    /\ NoValidation
    /\ NoResolve
    /\ NoCache
    /\ NoTaxonomy
    /\ NoLoad

\* The orders toposort.sort may give: every node once, each edge respected.
LegalOrders(graph) ==
    {order \in [1..Cardinality(GraphNodes(graph)) -> GraphNodes(graph)] :
        /\ Range(order) = GraphNodes(graph)
        /\ \A k \in DOMAIN graph : \A n \in graph[k] :
              IndexOf(order, k) < IndexOf(order, n)}

\* The loop of commit() with constructors that look features up:
\* site.features[name] raises KeyError for a name not yet instantiated, and
\* the exception leaves commit().
\* st: [features, instantiations, sorted, metadata_hooks, raised]
RECURSIVE BuiltinCommitLoop(_, _)
BuiltinCommitLoop(order, st) ==
    IF order = <<>> THEN st
    ELSE LET cls == Head(order)
         IN  IF cls \in st.features
             THEN BuiltinCommitLoop(Tail(order), st)
             ELSE IF ~(ConstructorLookups(cls) \subseteq st.features)
             THEN [st EXCEPT !.instantiations[cls] = @ + 1, !.raised = TRUE]
             ELSE BuiltinCommitLoop(Tail(order),
                    [features |-> st.features \cup {cls},
                     instantiations |-> [st.instantiations EXCEPT ![cls] = @ + 1],
                     sorted |-> Append(st.sorted, cls),
                     metadata_hooks |-> HooksAppend(st.metadata_hooks,
                                                    ForMetadata(cls), cls),
                     raised |-> FALSE])

\* Features.commit()
CommitBuiltin ==
    /\ phase = "registering"
    /\ LET orders == LegalOrders(DependencyGraph(feature_classes, RUN_BEFORE, RUN_AFTER))
       IN  IF orders # {}
           THEN \E order \in orders :
                   LET st == BuiltinCommitLoop(order,
                               [features |-> features,
                                instantiations |-> instantiations,
                                sorted |-> <<>>,
                                metadata_hooks |-> metadata_hooks,
                                raised |-> FALSE])
                   IN  /\ features' = st.features
                       /\ instantiations' = st.instantiations
                       /\ sorted' = st.sorted
                       /\ metadata_hooks' = st.metadata_hooks
                       /\ phase' = IF st.raised THEN "lookup failed" ELSE "committed"
           ELSE /\ sorted' = <<>>
                /\ UNCHANGED <<features, instantiations, metadata_hooks>>
                /\ phase' = "aborted"
    /\ UNCHANGED <<feature_classes, RUN_BEFORE, RUN_AFTER>>
    /\ UNCHANGED <<dir_files, dir_meta_log, load_dir_log, finalize_log, is_valid_log>>
    /\ UNCHANGED <<siteVars, scanVars, validVars, resolveVars, cacheVars, taxVars, loadVars>>

BuiltinNext ==
    \/ \E name \in FeatureNames : RegisterFeature(name)
    \/ CommitBuiltin

SpecBuiltin == BuiltinInit /\ [][BuiltinNext]_vars

(***************************************************************************)
(* SpecLoad: the load pass, ContentDir.load and AssetDir.load, over a tree *)
(* that Dir.scan has scanned.  The features are the page loaders of        *)
(* features/: markdown, data, links and taxonomy.                          *)
(***************************************************************************)
StaticDir == <<"static">>
DeepDir == <<"static", "deep">>

\* The directories in the order load() reaches them: a directory, then its
\* subdirectories.
LoadOrder == <<RootDir, StaticDir, DeepDir>>

\* Dir.files after the scan, in dict order.
Listing(d) ==
    CASE d = RootDir -> <<"index.md", "info.json", "blog.links", "tags.taxonomy", "logo.png">>
      [] d = StaticDir -> <<"readme.md", "pipe">>
      [] OTHER -> <<"note.md">>

\* stat.S_ISREG(f.stat.st_mode)
IsRegular(fname) == fname # "pipe"

\* What a loader tells from the name: fname.endswith(".md"), re_ext.search,
\* fname.endswith(".links"), fname.endswith(".taxonomy").
Kind(fname) ==
    CASE fname \in {"index.md", "readme.md", "note.md"} -> "markdown"
      [] fname = "info.json" -> "data"
      [] fname = "blog.links" -> "links"
      [] fname = "tags.taxonomy" -> "taxonomy"
      [] OTHER -> "none"

\* The name without its extension: fname[:-3], fname[:-6], fname[:-9].
Stem(fname) ==
    CASE fname = "index.md" -> "index"
      [] fname = "readme.md" -> "readme"
      [] fname = "note.md" -> "note"
      [] fname = "info.json" -> "info"
      [] fname = "blog.links" -> "blog"
      [] fname = "tags.taxonomy" -> "tags"
      [] OTHER -> fname

Loaders == {"markdown", "data", "links", "taxonomy"}

\* meta.get("asset")
IsAsset(meta) == "asset" \in DOMAIN meta /\ meta["asset"] = TRUE

\* Dir.create
create(meta) == IF IsAsset(meta) THEN "AssetDir" ELSE "ContentDir"

\* Asset.__init__: the page keeps the dict it is given and sets date and title.
Asset(src, fname, meta) ==
    [src |-> src, type |-> "asset",
     meta |-> Update(meta, Update(Only("date", GenerationTime - 1), Only("title", fname)))]

\* Page.is_valid() in a load of the site (DRAFT_MODE off): the verdict and the
\* page with the metadata the call leaves.
Validate(page) ==
    LET r == is_valid(FALSE, page.meta)
    IN  [ok |-> r.result = "True", page |-> [page EXCEPT !.meta = r.meta]]

(***************************************************************************)
(* The load_dir hooks.  st = [files, file_meta, taken, pages] is the state *)
(* of one call on directory d: Dir.files, Dir.file_meta, and the locals    *)
(* taken and pages.  meta_file(fname) returns the dict kept in file_meta,  *)
(* so what a hook writes into it stays in file_meta.                       *)
(***************************************************************************)
\* MarkdownPages.load_dir, the loop body (the page with the metadata the
\* loop hands to MarkdownPage).
markdown_load_dir(d, fname, st) ==
    IF Kind(fname) # "markdown" THEN st
    ELSE LET meta == IF fname \in {"index.md", "README.md"} THEN st.file_meta[fname]
                     ELSE [st.file_meta[fname] EXCEPT !["site_path"] = Append(@, Stem(fname))]
             taken == [st EXCEPT !.taken = @ \cup {fname}]
         IN  IF ~disk[<<d, fname>>].parses
             THEN [taken EXCEPT !.file_meta[fname] = meta]
             ELSE LET full == Update(meta, disk[<<d, fname>>].front)
                  IN  [taken EXCEPT !.file_meta[fname] = full,
                                    !.pages = Append(@, [src |-> <<d, fname>>,
                                                         type |-> "markdown", meta |-> full])]

\* DataPage.__init__ on the dict it is given: build_path, the defaults of
\* indexed, date (the file's mtime) and template, and the parsed data.
DataPage(src, meta, data) ==
    LET own == Update(Update(Only("indexed", TRUE), Only("date", GenerationTime - 1)),
                      Only("build_path", Append(meta["site_path"], "index.html")))
        m1 == Update(Update(own, meta), Only("build_path", own["build_path"]))
        m2 == Update(m1, data)
    IN  [src |-> src, type |-> "data",
         meta |-> IF "template" \in DOMAIN m2 THEN m2
                  ELSE Update(m2, Only("template", "data.html"))]

\* DataPages.load_dir, the loop body.
data_load_dir(d, fname, st) ==
    IF Kind(fname) # "data" THEN st
    ELSE LET taken == [st EXCEPT !.taken = @ \cup {fname}]
             data == disk[<<d, fname>>]
         IN  IF ~data.parses THEN taken
             ELSE IF "type" \notin DOMAIN data.front THEN taken
             ELSE LET meta == IF Stem(fname) = "index" THEN st.file_meta[fname]
                              ELSE [st.file_meta[fname] EXCEPT
                                        !["site_path"] = Append(@, Stem(fname))]
                      v == Validate(DataPage(<<d, fname>>, meta, data.front))
                  IN  IF ~v.ok THEN [taken EXCEPT !.file_meta[fname] = v.page.meta]
                      ELSE [taken EXCEPT !.file_meta[fname] = v.page.meta,
                                         !.pages = Append(@, v.page)]

\* Links.load_dir, the loop body (the page with the metadata the loop hands
\* to LinkIndexPage).
links_load_dir(d, fname, st) ==
    IF Kind(fname) # "links" THEN st
    ELSE LET meta == [st.file_meta[fname] EXCEPT
                         !["site_path"] = Append(dir_meta[d]["site_path"], Stem(fname))]
             taken == [st EXCEPT !.taken = @ \cup {fname}]
         IN  IF ~disk[<<d, fname>>].parses
             THEN [taken EXCEPT !.file_meta[fname] = meta]
             ELSE LET full == Update(meta, disk[<<d, fname>>].front)
                  IN  [taken EXCEPT !.file_meta[fname] = full,
                                    !.pages = Append(@, [src |-> <<d, fname>>,
                                                         type |-> "links", meta |-> full])]

\* TaxonomyPage._read_taxonomy_description: the front matter updates the
\* metadata; a parse error is logged and nothing else happens.
read_taxonomy_description(src, meta) ==
    IF disk[src].parses THEN Update(meta, disk[src].front) ELSE meta

\* TaxonomyPage.__init__ on the dict it is given.
TaxonomyPage(src, meta) ==
    LET m1 == IF "template" \in DOMAIN meta THEN meta
              ELSE Update(meta, Only("template", "taxonomy/taxonomy.html"))
    IN  [src |-> src, type |-> "taxonomy", meta |-> read_taxonomy_description(src, m1)]

\* TaxonomyFeature.load_dir, the loop body.
taxonomy_load_dir(d, fname, st) ==
    IF Kind(fname) # "taxonomy" THEN st
    ELSE LET meta == [st.file_meta[fname] EXCEPT !["site_path"] = Append(@, Stem(fname))]
             v == Validate(TaxonomyPage(<<d, fname>>, meta))
         IN  IF ~v.ok THEN [st EXCEPT !.file_meta[fname] = v.page.meta]
             ELSE [st EXCEPT !.file_meta[fname] = v.page.meta,
                             !.taken = @ \cup {fname},
                             !.pages = Append(@, v.page)]

\* "for fname, src in sitedir.files.items(): ..." of the feature's load_dir.
RECURSIVE LoadDirLoop(_, _, _, _)
LoadDirLoop(feature, d, names, st) ==
    IF names = <<>> THEN st
    ELSE LET fname == Head(names)
         IN  CHOOSE result \in
                 {LoadDirLoop(feature, d, Tail(names), next) : next \in
                     {IF fname \notin st.files THEN st
                      ELSE CASE feature = "markdown" -> markdown_load_dir(d, fname, st)
                             [] feature = "data" -> data_load_dir(d, fname, st)
                             [] feature = "links" -> links_load_dir(d, fname, st)
                             [] OTHER -> taxonomy_load_dir(d, fname, st)}} : TRUE

\* handler.load_dir(sitedir): the loop, then "for fname in taken: del
\* sitedir.files[fname]"; the pages are returned.
load_dir(feature, d, dir_state) ==
    CHOOSE result \in
        {[files |-> st.files \ st.taken, file_meta |-> st.file_meta, pages |-> st.pages] :
            st \in {LoadDirLoop(feature, d, Listing(d),
                        [files |-> dir_state.files, file_meta |-> dir_state.file_meta,
                         taken |-> {}, pages |-> <<>>])}} : TRUE

(***************************************************************************)
(* ContentDir.load and AssetDir.load of one directory.  acc = [files,      *)
(* file_meta, load_log, page_log]; an entry of load_log records who was    *)
(* handed the pending files, the files and their metadata before and after *)
(* the call; an entry of page_log is a page passed to site.add_page, with  *)
(* who built it.                                                           *)
(***************************************************************************)
LogCall(acc, d, handler, after) ==
    Append(acc.load_log,
           [dir |-> d, handler |-> handler,
            offered |-> acc.files, left |-> after.files,
            meta_before |-> acc.file_meta, meta_after |-> after.file_meta])

LogPages(acc, handler, new_pages) ==
    acc.page_log \o [i \in 1..Len(new_pages) |->
                        [src |-> new_pages[i].src, type |-> new_pages[i].type,
                         handler |-> handler, meta |-> new_pages[i].meta]]

\* "p = Asset(...); if not p.is_valid(): continue; self.site.add_page(p)" for
\* the pending files among names that pass the loop's test, "marked" (the
\* file's metadata has the asset flag) or "regular" (S_ISREG); st as in load_dir.
Wanted(test, fname, meta) ==
    IF test = "marked" THEN IsAsset(meta) ELSE IsRegular(fname)

RECURSIVE AssetLoop(_, _, _, _)
AssetLoop(d, names, test, st) ==
    IF names = <<>> THEN st
    ELSE LET fname == Head(names)
             v == Validate(Asset(<<d, fname>>, fname, st.file_meta[fname]))
         IN  CHOOSE result \in
                 {AssetLoop(d, Tail(names), test, next) : next \in
                     {IF fname \notin st.files \/ ~Wanted(test, fname, st.file_meta[fname]) THEN st
                      ELSE IF ~v.ok THEN [st EXCEPT !.file_meta[fname] = v.page.meta]
                      ELSE [st EXCEPT !.file_meta[fname] = v.page.meta,
                                      !.taken = @ \cup {fname},
                                      !.pages = Append(@, v.page)]}} : TRUE

AssetsOf(d, test, acc) ==
    AssetLoop(d, Listing(d), test,
              [files |-> acc.files, file_meta |-> acc.file_meta,
               taken |-> {}, pages |-> <<>>])

\* Leaving the files it has loaded pending.
LoadMarkedAssets_keepsFiles(d, acc) ==
    CHOOSE result \in
        {[files |-> st.files, file_meta |-> st.file_meta,
          load_log |-> LogCall(acc, d, "asset", st),
          page_log |-> LogPages(acc, "asset", st.pages)] :
            st \in {AssetsOf(d, "marked", acc)}} : TRUE

\* ContentDir.load, "Handle files marked as assets in their metadata".
LoadMarkedAssets(d, acc) ==
    CHOOSE result \in
        {[files |-> st.files \ st.taken, file_meta |-> st.file_meta,
          load_log |-> LogCall(acc, d, "asset", [st EXCEPT !.files = @ \ st.taken]),
          page_log |-> LogPages(acc, "asset", st.pages)] :
            st \in {AssetsOf(d, "marked", acc)}} : TRUE

\* ContentDir.load, "Let features pick their files".
RECURSIVE LoadFeatures(_, _, _)
LoadFeatures(d, handlers, acc) ==
    IF handlers = <<>> THEN acc
    ELSE CHOOSE result \in
             {IF next.files = {} THEN next ELSE LoadFeatures(d, Tail(handlers), next) :
                 next \in
                     {[files |-> after.files, file_meta |-> after.file_meta,
                       load_log |-> LogCall(acc, d, Head(handlers), after),
                       page_log |-> LogPages(acc, Head(handlers), after.pages)] :
                          after \in {load_dir(Head(handlers), d, acc)}}} : TRUE

\* ContentDir.load, "Use everything else as an asset", and the loop of
\* AssetDir.load: the files stay in Dir.files.
LoadRegularFiles(d, handler, acc) ==
    CHOOSE result \in
        {[files |-> st.files, file_meta |-> st.file_meta,
          load_log |-> LogCall(acc, d, handler, st),
          page_log |-> LogPages(acc, handler, st.pages)] :
            st \in {AssetsOf(d, "regular", acc)}} : TRUE

ContentDir_load(d, order, acc) ==
    CHOOSE result \in
        {LoadRegularFiles(d, "fallback", claimed) :
            claimed \in {LoadFeatures(d, order, marked) :
                            marked \in {LoadMarkedAssets(d, acc)}}} : TRUE

AssetDir_load(d, acc) == LoadRegularFiles(d, "AssetDir", acc)

(***************************************************************************)
(* The scanned tree and the files on disk.                                 *)
(***************************************************************************)
\* Metadata the root Dir is constructed with: with or without a site_url.
LoadRootMetas ==
    {Update(Only("site_path", <<>>), Only("site_name", "Site")),
     Update(Update(Only("site_path", <<>>), Only("site_name", "Site")),
            Only("site_url", "https://example.org"))}

\* "files" rules of the root's .staticsite: none, or one marking files as assets.
AssetFileRules ==
    {<<>>,
     <<[pattern |-> [kind |-> "name", arg |-> "logo.png"], meta |-> Only("asset", TRUE)]>>,
     <<[pattern |-> [kind |-> "ext", arg |-> "md"], meta |-> Only("asset", TRUE)]>>,
     <<[pattern |-> [kind |-> "name", arg |-> "tags.taxonomy"], meta |-> Only("asset", TRUE)]>>}

\* "dirs" rules of the root's .staticsite: none, or static is an asset tree.
RootDirRules ==
    {<<>>, <<[pattern |-> [kind |-> "name", arg |-> "static"], meta |-> Only("asset", TRUE)]>>}

\* "dirs" rules of static's .staticsite: none, or the asset flag is switched
\* off for its subdirectories.
StaticDirRules ==
    {<<>>, <<[pattern |-> [kind |-> "any", arg |-> "*"], meta |-> Only("asset", FALSE)]>>}

\* What reading a file gives: whether it parses, and its front matter or data.
Parsed(fname, future) ==
    [parses |-> TRUE,
     front |-> CASE Kind(fname) = "data" -> Only("type", "note")
                 [] Kind(fname) = "taxonomy" /\ future -> Only("date", GenerationTime + 1)
                 [] OTHER -> EmptyMeta]
Unparsable == [parses |-> FALSE, front |-> EmptyMeta]

SourcePaths == {<<d, Listing(d)[i]>> : <<d, i>> \in
                   {x \in Range(LoadOrder) \X (1..5) : x[2] <= Len(Listing(x[1]))}}

\* The run's scheduler order: links declares RUN_AFTER data.
LoaderOrders == LegalOrders([n \in Loaders |-> IF n = "data" THEN {"links"} ELSE {}])

LoadInit ==
    /\ \E order \in LoaderOrders :
          /\ feature_classes = order
          /\ sorted = order
    /\ RUN_BEFORE = [n \in Loaders |->
                        CASE n = "links" -> {"dirs"}
                          [] n = "taxonomy" -> {UnknownName}
                          [] OTHER -> {}]
    /\ RUN_AFTER = [n \in Loaders |-> IF n = "links" THEN {"data"} ELSE {}]
    /\ features = Loaders
    /\ instantiations = [n \in Loaders |-> 1]
    /\ metadata_hooks = [m \in MetaNames |-> <<>>]
    /\ phase = "scanned"
    /\ dir_files = {}
    /\ dir_meta_log = <<>>
    /\ load_dir_log = <<>>
    /\ finalize_log = <<>>
    /\ is_valid_log = {}
    /\ DRAFT_MODE = FALSE
    /\ pages = EmptyMeta
    /\ hook_log = <<>>
    /\ added = <<>>
    /\ pages2 = EmptyMeta
    /\ hook_log2 = <<>>
    /\ dir_config = [d \in Range(LoadOrder) |-> NoConfig]
    /\ index_front_matter = [d \in Range(LoadOrder) |-> NoConfig]
    /\ \E root \in LoadRootMetas, fr \in AssetFileRules, dr \in RootDirRules,
          sr \in StaticDirRules :
          LET static == ApplyRules(root, dr, "static")
              deep == ApplyRules(static, sr, "deep")
              meta_of == [d \in Range(LoadOrder) |->
                             CASE d = RootDir -> root [] d = StaticDir -> static
                               [] OTHER -> deep]
          IN  /\ dir_meta = meta_of
              /\ dir_rules = [d \in Range(LoadOrder) |->
                                 CASE d = RootDir -> dr [] d = StaticDir -> sr [] OTHER -> <<>>]
              /\ file_rules = [d \in Range(LoadOrder) |-> IF d = RootDir THEN fr ELSE <<>>]
              /\ file_meta = [d \in Range(LoadOrder) |->
                                 [f \in Range(Listing(d)) |->
                                     ApplyRules(meta_of[d], IF d = RootDir THEN fr ELSE <<>>, f)]]
              /\ dir_class = [d \in Range(LoadOrder) |->
                                 IF d = RootDir THEN "ContentDir" ELSE create(meta_of[d])]
    /\ site_dir_meta = Range(LoadOrder)
    /\ scan_done = LoadOrder
    /\ files = [d \in Range(LoadOrder) |-> Range(Listing(d))]
    /\ \E bad \in SourcePaths \cup {<<>>}, future \in BOOLEAN :
          disk = [p \in SourcePaths |->
                     IF p = bad THEN Unparsable ELSE Parsed(p[2], future)]
    /\ load_log = <<>>
    /\ page_log = <<>>
    /\ load_done = <<>>
    /\ NoValidation
    /\ NoResolve
    /\ NoCache
    /\ NoTaxonomy

\* The directory load() reaches next.
NextToLoad(d) ==
    /\ Len(load_done) < Len(LoadOrder)
    /\ d = LoadOrder[Len(load_done) + 1]

LoadFrame ==
    /\ UNCHANGED <<dir_class, disk>>
    /\ UNCHANGED <<dir_config, index_front_matter, dir_meta, dir_rules, file_rules,
                   site_dir_meta, scan_done>>
    /\ UNCHANGED <<schedVars, runVars, siteVars, validVars, resolveVars, cacheVars, taxVars>>

Loaded(d, result) ==
    \E done \in {result} :
        /\ files' = [files EXCEPT ![d] = done.files]
        /\ file_meta' = [file_meta EXCEPT ![d] = done.file_meta]
        /\ load_log' = done.load_log
        /\ page_log' = done.page_log
        /\ load_done' = Append(load_done, d)

\* ContentDir.load of directory d, before it goes into the subdirectories.
LoadContentDir(d) ==
    /\ NextToLoad(d)
    /\ dir_class[d] = "ContentDir"
    /\ Loaded(d, ContentDir_load(d, sorted,
                    [files |-> files[d], file_meta |-> file_meta[d],
                     load_log |-> load_log, page_log |-> page_log]))
    /\ LoadFrame

\* AssetDir.load of directory d, before it goes into the subdirectories.
LoadAssetDir(d) ==
    /\ NextToLoad(d)
    /\ dir_class[d] = "AssetDir"
    /\ Loaded(d, AssetDir_load(d,
                    [files |-> files[d], file_meta |-> file_meta[d],
                     load_log |-> load_log, page_log |-> page_log]))
    /\ LoadFrame

LoadNext ==
    \/ \E d \in Range(LoadOrder) : LoadContentDir(d)
    \/ \E d \in Range(LoadOrder) : LoadAssetDir(d)

SpecLoad == LoadInit /\ [][LoadNext]_vars

(***************************************************************************)
(* Properties of the feature scheduler.                                    *)
(***************************************************************************)
Registered == Range(feature_classes)

\* commit() has returned normally.
Committed == phase \in {"committed", "scanned", "loaded", "analyzed"}

\* a must run before b, as the registered classes declare it.
MustPrecede(a, b) ==
    /\ a \in Registered
    /\ b \in Registered
    /\ (b \in RUN_BEFORE[a] \/ a \in RUN_AFTER[b])

\* The features that must run after a, directly or not.
RECURSIVE Successors(_, _)
Successors(S, n) ==
    IF n = 0 THEN S
    ELSE Successors(S \cup {b \in Registered : \E a \in S : MustPrecede(a, b)}, n - 1)

DeclaredCycle ==
    \E a \in Registered :
        a \in Successors({b \in Registered : MustPrecede(a, b)}, Cardinality(FeatureNames))

\* Some registered class names a feature that is not registered.
DeclaresUnknown ==
    \E f \in Registered : (RUN_BEFORE[f] \cup RUN_AFTER[f]) \ Registered # {}

Precedes(s, a, b) == 0 < IndexOf(s, a) /\ IndexOf(s, a) < IndexOf(s, b)

\* C1: when a registered feature A declares RUN_BEFORE [B], or B declares
\* RUN_AFTER [A], A precedes B in ordered() once commit() has returned, and
\* B's finalize hook has not run unless A's has completed before it, whatever
\* the order in which A and B were registered.
C1_FinalizeFollowsDeclaredOrder ==
    Committed =>
        \A a, b \in Registered :
            MustPrecede(a, b) =>
                /\ Precedes(sorted, a, b)
                /\ (b \in Range(finalize_log) => Precedes(finalize_log, a, b))

\* B was registered before A, A declares RUN_BEFORE [B], and both finalize
\* hooks have run.
C1_Witness ==
    /\ phase = "analyzed"
    /\ \E a, b \in Registered :
          /\ b \in RUN_BEFORE[a]
          /\ IndexOf(feature_classes, b) < IndexOf(feature_classes, a)
          /\ Precedes(finalize_log, a, b)

\* C2: after commit() on an acyclic set of registered classes, every
\* registered class has been instantiated exactly once and appears exactly
\* once in ordered(), also a class with no constraint that no other names.
C2_EveryClassInstantiatedOnce ==
    Committed =>
        \A n \in Registered :
            /\ instantiations[n] = 1
            /\ Occurrences(sorted, n) = 1

\* C3: when the declarations of the registered features contain a cycle,
\* commit() fails and the run stops there: no load_dir_meta, load_dir or
\* finalize hook has run and the page registry is empty.
C3_CycleAbortsBeforeContent ==
    (phase # "registering" /\ DeclaredCycle) =>
        /\ phase = "aborted"
        /\ features = {}
        /\ sorted = <<>>
        /\ dir_meta_log = <<>>
        /\ load_dir_log = <<>>
        /\ finalize_log = <<>>
        /\ DOMAIN pages = {}

\* commit() has failed on a cycle through three registered features.
C3_Witness ==
    /\ phase = "aborted"
    /\ Cardinality(Registered) = 3
    /\ \A a \in Registered : Cardinality({b \in Registered : MustPrecede(a, b)}) = 1

\* C4: an entry naming an unregistered feature does not fail commit(): with
\* such an entry present and no cycle among the registered features, commit()
\* completes and every constraint between registered features holds in
\* ordered().
C4_UnknownNameIgnored ==
    (phase # "registering" /\ DeclaresUnknown /\ ~DeclaredCycle) =>
        /\ Committed
        /\ \A n \in Range(sorted) : n \in Registered
        /\ \A a, b \in Registered : MustPrecede(a, b) => Precedes(sorted, a, b)

\* commit() has completed for a class that lists an unregistered name next
\* to a registered one in the same attribute.
C4_Witness ==
    /\ phase = "committed"
    /\ \E f \in Registered :
          /\ RUN_AFTER[f] \ Registered # {}
          /\ RUN_AFTER[f] \cap Registered # {}
    /\ Len(sorted) >= 2

(***************************************************************************)
(* Properties of the page registry.                                        *)
(***************************************************************************)
\* The pages passed to add_page that it did not ignore as future-dated, in
\* call order.
Accepted == SelectSeq(added, LAMBDA p : ~IsIgnoredAsFuture(DRAFT_MODE, p))

\* The first accepted page filed under the given path.
FirstAccepted(path) ==
    Accepted[CHOOSE i \in 1..Len(Accepted) :
        /\ Accepted[i].src_linkpath = path
        /\ \A j \in 1..(i-1) : Accepted[j].src_linkpath # path]

\* C5: two runs over the same features and the same content produce the same
\* feature order, the same sequence of feature.add_page notifications and
\* the same page registry.
C5_TwoRunsAgree ==
    /\ pages2 = pages
    /\ hook_log2 = hook_log

\* C8: a lookup by path returns the first page that was added under that
\* path; a later page with the same path does not replace it.
C8_FirstPageKept ==
    \A path \in DOMAIN pages : pages[path] = FirstAccepted(path)

\* The page add_page was last called with.
LastAdded == added'[Len(added')]

\* C9: with draft-mode off, add_page of a page dated after the generation
\* time changes neither the registry nor the notifications; in every other
\* case (draft-mode on, no date, date not after the generation time) the page
\* is filed under its path and each feature hooked on one of its metadata
\* names is notified of it once.
C9_FutureDatedOnlyInDraftMode ==
    [][added' # added =>
        IF ~DRAFT_MODE /\ HasMeta(LastAdded, "date")
                       /\ LastAdded.meta["date"] > GenerationTime
        THEN pages' = pages /\ hook_log' = hook_log
        ELSE /\ LastAdded.src_linkpath \in DOMAIN pages'
             /\ pages'[LastAdded.src_linkpath] = LastAdded
             /\ \A path \in DOMAIN pages \ {LastAdded.src_linkpath} :
                   path \in DOMAIN pages' /\ pages'[path] = pages[path]
             /\ LET new == SubSeq(hook_log', Len(hook_log) + 1, Len(hook_log'))
                    notified == {f \in FeatureNames :
                                   \E m \in MetaNames :
                                      HasMeta(LastAdded, m) /\ f \in Range(metadata_hooks[m])}
                IN  /\ SubSeq(hook_log', 1, Len(hook_log)) = hook_log
                    /\ Range(new) = {<<f, LastAdded>> : f \in notified}
                    /\ Len(new) = Cardinality(notified)
    ]_vars

\* With draft-mode off a future-dated page carrying hooked metadata was passed
\* to add_page and left out, and a page dated at the generation time was
\* passed and filed.
C9_Witness ==
    /\ ~DRAFT_MODE
    /\ Len(added) = 2
    /\ metadata_hooks["tags"] # <<>>
    /\ HasMeta(added[1], "date") /\ added[1].meta["date"] > GenerationTime
    /\ HasMeta(added[1], "tags")
    /\ HasMeta(added[2], "date") /\ added[2].meta["date"] = GenerationTime
    /\ DOMAIN pages = {added[2].src_linkpath}
    /\ added[1].src_linkpath # added[2].src_linkpath
    /\ \A i \in 1..Len(hook_log) : hook_log[i][2] = added[2]

\* C20: the marker autogenerated_pages orders features without being one: a
\* feature declaring RUN_BEFORE [autogenerated_pages] precedes in ordered()
\* every feature declaring RUN_AFTER [autogenerated_pages], and no feature of
\* that name is instantiated or appears in ordered().
C20_MarkerOrdersFeatures ==
    Committed =>
        /\ \A a, b \in Range(sorted) :
              (a # b /\ UnknownName \in RUN_BEFORE[a] /\ UnknownName \in RUN_AFTER[b])
                  => Precedes(sorted, a, b)
        /\ UnknownName \notin features
        /\ UnknownName \notin Range(sorted)

(***************************************************************************)
(* Properties of the run: loading, then finalizing.                        *)
(***************************************************************************)
\* C11: every page in the registry had is_valid() called on it, answering
\* true, before it was passed to add_page: the pages of the load_dir hooks,
\* the static assets and the pages created by the finalize hooks.
C11_RegisteredPagesWereValidated ==
    \A p \in DOMAIN pages : <<p, "True">> \in is_valid_log

\* The pages of the registry that were built from a source file.
SourcePages(reg) == [p \in DOMAIN reg \cap ContentFiles |-> reg[p]]

\* C19: a finalize hook runs only once the load of the content tree has
\* completed; from the first finalize hook on, the pages built from source
\* files are all in the registry already (none is added or replaced), and a
\* page is added only by a finalize hook.
C19_FinalizeAfterLoad ==
    [][/\ finalize_log' # finalize_log =>
            (phase = "loaded" /\ SourcePages(pages') = SourcePages(pages))
       /\ (finalize_log # <<>> /\ pages' # pages) =>
            (finalize_log' # finalize_log /\ SourcePages(pages') = SourcePages(pages))]_vars

\* A finished run whose registry holds pages built from source files and
\* pages created by two finalize hooks.
C19_Witness ==
    /\ phase = "analyzed"
    /\ Len(finalize_log) = 3
    /\ {"index.md", "logo.png"} \subseteq DOMAIN pages
    /\ {"series/s1", "blog/x-links"} \subseteq DOMAIN pages

(***************************************************************************)
(* Properties of the directory scanner.                                    *)
(***************************************************************************)
\* Dir.scan has run on the whole tree.
ScanFinished == Range(scan_done) = DirIds

Children(d) == Files(d) \cup Subdirs(d)

\* The rules Dir.scan tests a child name against.
RulesFor(d, name) == IF name \in Subdirs(d) THEN dir_rules[d] ELSE file_rules[d]

\* The rules whose pattern matches the name, and among them those that set key k.
Matching(rules, name) == {i \in 1..Len(rules) : PatternMatches(rules[i].pattern, name)}
Setting(rules, name, k) == {i \in Matching(rules, name) : k \in DOMAIN rules[i].meta}

\* The layering, key by key: the value of the last matching rule that sets the
\* key, else the directory's own value.
Layered(meta, rules, name) ==
    [k \in DOMAIN meta \cup UNION {DOMAIN rules[i].meta : i \in Matching(rules, name)} |->
        IF Setting(rules, name, k) = {} THEN meta[k]
        ELSE LET last == CHOOSE i \in Setting(rules, name, k) :
                            \A j \in Setting(rules, name, k) : j <= i
             IN  rules[last].meta[k]]

\* The inherited keys a directory's own configuration sets: its .staticsite
\* file, then the front matter of its index.md when a feature reads it.
OwnInheritedKeys(d) ==
    LET inh(cfg) == [n \in {x \in RegisteredMetadata \cap DOMAIN cfg.keys : Inherited(x)} |->
                        cfg.keys[n]]
        reads == "index.md" \in Files(d) /\ \E f \in Range(sorted) : Claims(f, "index.md")
    IN  Update(inh(dir_config[d]),
               IF reads THEN inh(index_front_matter[d]) ELSE EmptyMeta)

\* C6, as the claim states it: once Dir.scan has run, the metadata of every
\* child name, file or subdirectory, is the copy of the directory's metadata
\* updated with the deltas of the matching rules in declaration order.
C6_ChildMetaIsLayeredCopy ==
    ScanFinished =>
        \A d \in DirIds : \A name \in Children(d) :
            ChildMeta(d, name) = Layered(dir_meta[d], RulesFor(d, name), name)

\* C6, as the code has it: after the scan of a directory, the metadata of
\* each of its files is the copy of the directory's metadata updated with the
\* deltas of the matching file rules, a later rule overwriting an earlier
\* one; the entry of a subdirectory is computed the same way from the dir
\* rules and is the dict the subdirectory scans with, so that once the
\* subdirectory is scanned it also carries the inherited keys of the
\* subdirectory's own configuration.
C6_ChildMetaLayeredThenOwnConfig ==
    \A d \in Range(scan_done) :
        /\ \A f \in Files(d) :
              file_meta[d][f] = Layered(dir_meta[d], file_rules[d], f)
        /\ \A name \in Subdirs(d) :
              LET c == Append(d, name)
                  layered == Layered(dir_meta[d], dir_rules[d], name)
              IN  dir_meta[c] = IF c \in Range(scan_done)
                                THEN Update(layered, OwnInheritedKeys(c))
                                ELSE layered

\* A scanned tree where a file matches two rules that give the same key
\* different values, a dir rule matches the subdirectory, and the
\* subdirectory's own configuration sets an inherited key.
C6_Witness ==
    /\ ScanFinished
    /\ \E f \in Files(RootDir) : \E i, j \in Matching(file_rules[RootDir], f) :
          /\ i < j
          /\ \E k \in DOMAIN file_rules[RootDir][i].meta \cap DOMAIN file_rules[RootDir][j].meta :
                file_rules[RootDir][i].meta[k] # file_rules[RootDir][j].meta[k]
    /\ \E g \in Files(RootDir) : Matching(file_rules[RootDir], g) = {}
    /\ Matching(dir_rules[RootDir], "blog") # {}
    /\ OwnInheritedKeys(BlogDir) # EmptyMeta

\* C7: once Dir.scan has run, the metadata of every child has site_path equal
\* to the directory's site_path joined with the child's name, whatever was
\* inherited or set by a rule.
C7_SitePathRecomputed ==
    ScanFinished =>
        \A d \in DirIds : \A name \in Children(d) :
            /\ "site_path" \in DOMAIN ChildMeta(d, name)
            /\ ChildMeta(d, name)["site_path"] = Append(dir_meta[d]["site_path"], name)

(***************************************************************************)
(* Properties of page validation.                                          *)
(***************************************************************************)
\* C10: is_valid returns false for a page without site_path or without
\* site_url, draft mode on or off, and for a page dated in the future when
\* draft mode is off.
C10_InvalidWithoutMandatoryFields ==
    is_valid_result = "True" =>
        /\ "site_path" \in DOMAIN page_in
        /\ "site_url" \in DOMAIN page_in
        /\ ~DRAFT_MODE => ~("date" \in DOMAIN page_in /\ page_in["date"] > GenerationTime)

(***************************************************************************)
(* Properties of link resolution.                                          *)
(***************************************************************************)
\* The last call was resolve_path.
PathCall == resolve_call.kind = "resolve_path"
UrlCall == resolve_call.kind = "resolve_url"

\* The normalized absolute target: "/" names "", else normpath of the rest.
NormalizedTarget(parts) == IF parts = <<>> THEN <<>> ELSE NormPath(parts)

SrcHit(rel) == rel \in DOMAIN registered
SiteHit(rel) == \E src \in DOMAIN registered : registered[src] = rel

\* C12: for a target beginning with "/", resolve_path returns the page of the
\* first successful probe among: source-path index with the normalized target,
\* site-path index with the normalized target, source-path index with
\* "static/" + target; it fails with PageNotFound when all three miss; the
\* referencing page plays no part.
C12_AbsoluteProbeOrder ==
    (PathCall /\ resolve_call.target.abs) =>
        LET rel == NormalizedTarget(resolve_call.target.parts)
            res == resolve_call.result
        IN  /\ SrcHit(rel) => (res.found /\ res.page = rel)
            /\ (~SrcHit(rel) /\ SiteHit(rel)) => (res.found /\ registered[res.page] = rel)
            /\ (~SrcHit(rel) /\ ~SiteHit(rel) /\ SrcHit(<<"static">> \o rel)) =>
                    (res.found /\ res.page = <<"static">> \o rel)
            /\ (~SrcHit(rel) /\ ~SiteHit(rel) /\ ~SrcHit(<<"static">> \o rel)) => ~res.found
            /\ \A other \in ReferencingPages :
                    resolve_path(registered, other, resolve_call.target) = res

\* "/sibling" asked where a page has that source path, another has that site
\* path and a third is static/sibling: the page with the source path is returned.
C12_Witness ==
    /\ PathCall
    /\ resolve_call.target = [abs |-> TRUE, parts |-> <<"sibling">>]
    /\ DOMAIN registered = DOMAIN SitePathOf
    /\ resolve_call.result = Found(<<"sibling">>)

\* The source paths probed for a relative target from a page with a source
\* file, closest directory first.
RECURSIVE Ancestors(_)
Ancestors(dir) == IF dir = <<>> THEN <<dir>> ELSE <<dir>> \o Ancestors(Dirname(dir))

Candidate(dir, parts) ==
    LET n == NormPath(dir \o parts) IN IF n = Dot THEN <<>> ELSE n

\* C13: for a relative target and a page backed by a source file, the
\* source-path index is probed with the target joined to the page's directory,
\* then to each ancestor up to the root, and the match at the closest
\* directory is returned: from a/b.md, "sibling" is a/sibling when that page
\* exists, and sibling only when a/sibling does not.
C13_ClosestAncestorWins ==
    (PathCall /\ ~resolve_call.target.abs /\ resolve_call.page.src # NoSrc) =>
        LET dirs == Ancestors(Dirname(resolve_call.page.src))
            parts == resolve_call.target.parts
            hits == {i \in 1..Len(dirs) : SrcHit(Candidate(dirs[i], parts))}
            res == resolve_call.result
        IN  hits # {} =>
                /\ res.found
                /\ res.page = Candidate(dirs[CHOOSE i \in hits : \A j \in hits : i <= j], parts)

\* "sibling" asked from a/b.md where both a/sibling and sibling exist.
C13_Witness ==
    /\ PathCall
    /\ resolve_call.page.src = <<"a", "b.md">>
    /\ resolve_call.target = [abs |-> FALSE, parts |-> <<"sibling">>]
    /\ {<<"a", "sibling">>, <<"sibling">>} \subseteq DOMAIN registered
    /\ resolve_call.result = Found(<<"a", "sibling">>)

\* C14: resolve_url never raises for a reference it cannot resolve: when
\* resolve_path fails with PageNotFound the URL comes back unchanged; a URL
\* with a scheme, a host or an empty path comes back unchanged and
\* resolve_path is not called.
C14_UnresolvableUrlUnchanged ==
    UrlCall =>
        LET url == resolve_call.target
            res == resolve_call.result
            passes == url.scheme # "" \/ url.netloc # "" \/ url.path = EmptyPath
        IN  /\ passes => (res.url = url /\ ~res.attempted /\ ~res.raised)
            /\ (~passes /\ resolve_path(registered, resolve_call.page, url.path) = PageNotFound) =>
                    (res.url = url /\ ~res.raised)

\* A reference with a fragment to a page that does not exist.
C14_Witness ==
    /\ UrlCall
    /\ resolve_call.target.scheme = "" /\ resolve_call.target.netloc = ""
    /\ resolve_call.target.path = [abs |-> FALSE, parts |-> <<"missing">>]
    /\ resolve_call.target.fragment = "top"
    /\ resolve_call.result.attempted
    /\ resolve_call.result.url = resolve_call.target

(***************************************************************************)
(* Properties of the render cache (SpecCache).                             *)
(***************************************************************************)
CachedEntry == render_cache[RenderedPage.src]

\* What the page's LinkResolver answers for url against the registry as it is.
Resolution(url) ==
    LET r == resolve_url(registered, RenderedPage, url)
    IN  IF r.same THEN NoUrl ELSE r.url

\* The entry exists, carries the file's mtime, and each stored pair resolves
\* as stored.
EntryStillValid ==
    /\ RenderedPage.src \in DOMAIN render_cache
    /\ CachedEntry.mtime = src_mtime
    /\ \A i \in DOMAIN CachedEntry.paths :
          Resolution(CachedEntry.paths[i][1]) = CachedEntry.paths[i][2]

\* The conversion of the body as the file and the registry are.
FreshRendering ==
    [i \in DOMAIN src_links |->
        IF Resolution(src_links[i]) = NoUrl THEN src_links[i] ELSE Resolution(src_links[i])]

RenderStep == renders' = renders + 1

\* C15: a render answers from the cache, without converting and leaving the
\* entry alone, exactly when the entry exists, its mtime is the file's and
\* every stored (reference, URL) pair resolves as stored; otherwise it
\* converts the body and overwrites the entry with the file's mtime, the new
\* output and the resolutions observed, which cover every resolving link of
\* the body.
C15_CacheHitExactlyWhenValid ==
    [][RenderStep =>
         IF EntryStillValid
         THEN /\ last_render'.from_cache
              /\ last_render'.rendered = CachedEntry.rendered
              /\ render_cache' = render_cache
         ELSE /\ ~last_render'.from_cache
              /\ last_render'.rendered = FreshRendering
              /\ render_cache'[RenderedPage.src].mtime = src_mtime
              /\ render_cache'[RenderedPage.src].rendered = FreshRendering
              /\ \A pair \in Range(render_cache'[RenderedPage.src].paths) :
                    pair[2] = Resolution(pair[1])
              /\ \A url \in Range(src_links) :
                    Resolution(url) # NoUrl =>
                       <<url, Resolution(url)>> \in Range(render_cache'[RenderedPage.src].paths)]_vars

\* A render answered from the cache after its stored pairs were resolved again.
C15_Witness ==
    /\ renders >= 2
    /\ last_render.from_cache
    /\ RenderedPage.src \in DOMAIN render_cache
    /\ CachedEntry.paths # <<>>

\* C16: whatever renders, touches, edits, additions, removals and renames
\* came before, an output answered from the cache is the output a conversion
\* would give now.
C16_CacheNeverStale ==
    [][(RenderStep /\ last_render'.from_cache) =>
          last_render'.rendered = FreshRendering]_vars

(***************************************************************************)
(* Properties of the taxonomy (SpecTaxonomy).                              *)
(***************************************************************************)
NoDuplicates(s) == \A i, j \in DOMAIN s : s[i] = s[j] => i = j

\* The result of sequence() without its series title.
Positions(result) ==
    IF result = NoSequence THEN result
    ELSE [index |-> result.index, length |-> result.length, first |-> result.first,
          last |-> result.last, prev |-> result.prev, next |-> result.next]

\* What sequence(pk) is to be for the member list members = [p1..pn].
ExpectedSequence(members, site_path) ==
    IF site_path \notin Range(members) THEN NoSequence
    ELSE LET k == IndexOf(members, site_path)
             n == Len(members)
         IN  [index |-> k,
              length |-> n,
              first |-> members[1],
              last |-> members[n],
              prev |-> IF k = 1 THEN NoPage ELSE [page |-> members[k - 1]],
              next |-> IF k = n THEN NoPage ELSE [page |-> members[k + 1]]]

\* C17: for a category whose member list is [p1..pn], without repetition,
\* sequence(pk) gives index k counted from 1, length n, first p1, last pn,
\* prev p(k-1) or none when k = 1, next p(k+1) or none when k = n; for a
\* page that is not a member it gives none.
C17_SequenceOfMember ==
    (sequence_call.called /\ NoDuplicates(categories[sequence_call.category].pages)) =>
        Positions(sequence_call.result) =
            ExpectedSequence(categories[sequence_call.category].pages, sequence_call.page)

\* sequence(p2) asked of a category with three members.
C17_Witness ==
    /\ sequence_call.called
    /\ Len(categories[sequence_call.category].pages) = 3
    /\ NoDuplicates(categories[sequence_call.category].pages)
    /\ sequence_call.page = categories[sequence_call.category].pages[2]
    /\ sequence_call.result.index = 2

\* The page lists the value under the taxonomy key, a scalar counting as a
\* list of one.
Lists(page, value) ==
    IF "str" \in DOMAIN page.tags THEN page.tags.str = value
    ELSE value \in Range(page.tags.list)

FinalizeStep == tax_phase = "collecting" /\ tax_phase' = "stable"

\* C18: finalize leaves exactly one category page for each value listed by
\* some page carrying the key and none for any other value; the members of a
\* category are the pages listing its value; and each member list is in
\* ascending date order.
C18_CategoriesAfterFinalize ==
    [][FinalizeStep =>
         /\ DOMAIN categories' =
               {v \in Range(TagNames) : \E i \in DOMAIN tagged : Lists(tagged[i], v)}
         /\ \A v \in DOMAIN categories' :
               /\ Occurrences(generated', categories'[v].site_path) = 1
               /\ \A i \in DOMAIN tagged :
                     tagged[i].site_path \in Range(categories'[v].pages)
                        <=> Lists(tagged[i], v)
               /\ Range(categories'[v].pages) \subseteq {tagged[i].site_path : i \in DOMAIN tagged}
               /\ \A i, j \in DOMAIN categories'[v].pages :
                     i < j => PageAt(tagged, categories'[v].pages[i]).date
                                 <= PageAt(tagged, categories'[v].pages[j]).date]_vars

\* A finalized category one of whose members was added before an older
\* member.
C18_Witness ==
    /\ tax_phase = "stable"
    /\ \E i, j \in DOMAIN tagged :
          /\ i < j
          /\ tagged[i].date > tagged[j].date
          /\ "x" \in DOMAIN categories
          /\ tagged[i].site_path \in Range(categories["x"].pages)
          /\ tagged[j].site_path \in Range(categories["x"].pages)
          /\ IndexOf(categories["x"].pages, tagged[j].site_path)
                < IndexOf(categories["x"].pages, tagged[i].site_path)

(***************************************************************************)
(* More properties of link resolution (SpecResolve).                       *)
(***************************************************************************)
IsRelativePath(parts) == parts = <<>> \/ Head(parts) # Slash

C27_ResolvePathTerminates ==
    PathCall => (resolve_call.result.found \/ resolve_call.result = PageNotFound)

IsNonEmptyTitle(title) == title # NoTitle /\ title # [text |-> ""]

\* C22: the series title sequence(page) returns is the series_title of the
\* latest member at or before page in the category's list whose series_title
\* is non-empty, and the title of the first member when there is none; the
\* members after page play no part.
C22_SeriesTitleCarriedForward ==
    (sequence_call.called /\ sequence_call.result # NoSequence
        /\ NoDuplicates(categories[sequence_call.category].pages)) =>
        LET members == categories[sequence_call.category].pages
            k == IndexOf(members, sequence_call.page)
            set == {i \in 1..k : IsNonEmptyTitle(PageAt(tagged, members[i]).series_title)}
        IN  sequence_call.result.title =
                IF set = {} THEN PageAt(tagged, members[1]).title
                ELSE PageAt(tagged, members[CHOOSE i \in set : \A j \in set : j <= i]).series_title

\* The category pages stored in the page's metadata under the taxonomy key.
CategoriesOf(page) == IF "cats" \in DOMAIN page.tags THEN Range(page.tags.cats) ELSE {}

\* C30: after finalize, for every page p carrying the key and every category
\* c, c is among the category pages in p's metadata exactly when p is in c's
\* member list, p occurs there at most once, also when p lists the value
\* twice, and c's page_index maps p's site path to p's position in the list.
C30_PageAndCategoryLinksAgree ==
    tax_phase = "stable" =>
        \A i \in DOMAIN tagged : \A c \in DOMAIN categories :
            LET p == tagged[i]
                members == categories[c].pages
            IN  /\ c \in CategoriesOf(p) <=> p.site_path \in Range(members)
                /\ Occurrences(members, p.site_path) <= 1
                /\ p.site_path \in Range(members) =>
                      members[categories[c].page_index[p.site_path] + 1] = p.site_path

(***************************************************************************)
(* Properties of commit() over classes with constructor lookups            *)
(* (SpecBuiltin).                                                          *)
(***************************************************************************)
\* C29: when commit() instantiates a feature, every feature its constructor
\* looks up in site.features has been instantiated before, whatever order the
\* sort gives under the declared RUN_BEFORE and RUN_AFTER: with all the
\* classes registered no constructor call fails on its lookup, for Links
\* reading "data" and for SyndicationFeature reading "rst".
C29_LookedUpFeaturesExist ==
    Range(feature_classes) = FeatureNames =>
        /\ phase # "lookup failed"
        /\ \A i \in DOMAIN sorted :
              \A name \in ConstructorLookups(sorted[i]) :
                 \E j \in 1..(i - 1) : sorted[j] = name


\* The rules of the parent directory that match directory d, and the keys the
\* directory is given: by its own .staticsite file, by a dirs rule of its parent.
ParentOf(d) == SubSeq(d, 1, Len(d) - 1)
KeysOfConfig(d) == DOMAIN dir_config[d].keys
KeysOfParentRules(d) ==
    UNION {DOMAIN dir_rules[ParentOf(d)][i].meta :
              i \in Matching(dir_rules[ParentOf(d)], d[Len(d)])}

\* The keys the registry declares with inherited=False.
DeclaredLocal == {k \in RegisteredMetadata : ~Inherited(k)}

\* C26: once the tree is scanned, a key declared with inherited=False that a
\* directory gets from its own config file or from a dirs rule of its parent
\* is in the metadata of no file below the directory (no file rule of the
\* directory sets it), while a key declared inherited that the config file
\* sets is in the metadata of every file below, with the value of the file.
C26_OnlyInheritedKeysPropagate ==
    ScanFinished =>
        \A d \in DirIds \ {RootDir} : \A f \in Files(d) :
            /\ \A k \in DeclaredLocal \cap (KeysOfConfig(d) \cup KeysOfParentRules(d)) :
                  (\A i \in Matching(file_rules[d], f) : k \notin DOMAIN file_rules[d][i].meta)
                      => k \notin DOMAIN file_meta[d][f]
            /\ \A k \in KeysOfConfig(d) :
                  (k \in RegisteredMetadata /\ Inherited(k)
                   /\ \A i \in Matching(file_rules[d], f) : k \notin DOMAIN file_rules[d][i].meta)
                      => /\ k \in DOMAIN file_meta[d][f]
                         /\ file_meta[d][f][k] = dir_config[d].keys[k]


(***************************************************************************)
(* Properties of the load pass.                                            *)
(***************************************************************************)
\* The metadata Dir.scan computed for file f of directory d.
ScannedMeta(d, f) == ApplyRules(dir_meta[d], file_rules[d], f)

\* The calls of load_log that dealt with file f of directory d: one that
\* removed it from Dir.files, or the last loop, which was handed it.
HandledBy(d, f) ==
    {k \in DOMAIN load_log :
        /\ load_log[k].dir = d
        /\ \/ f \in load_log[k].offered \ load_log[k].left
           \/ /\ load_log[k].handler \in {"fallback", "AssetDir"}
              /\ f \in load_log[k].offered
              /\ IsRegular(f)}

\* C23: in a ContentDir that has been loaded, every regular file was dealt
\* with by exactly one of: the loop over the files marked asset, a feature's
\* load_dir that removed it, the final loop over what is left; a file a call
\* removed is handed to no later call; a page was built by the call that dealt
\* with its file (the asset loop only for a file marked asset, a feature only
\* when it removed the file); and no source file has two pages.
C23_EachFileHandledOnce ==
    /\ \A d \in Range(load_done) : \A f \in Range(Listing(d)) :
          (dir_class[d] = "ContentDir" /\ IsRegular(f)) => Cardinality(HandledBy(d, f)) = 1
    /\ \A i, j \in DOMAIN load_log :
          (i < j /\ load_log[i].dir = load_log[j].dir)
              => (load_log[i].offered \ load_log[i].left) \cap load_log[j].offered = {}
    /\ \A i \in DOMAIN page_log :
          \E k \in HandledBy(page_log[i].src[1], page_log[i].src[2]) :
              /\ load_log[k].handler = page_log[i].handler
              /\ page_log[i].handler = "asset"
                    => IsAsset(ScannedMeta(page_log[i].src[1], page_log[i].src[2]))
    /\ \A i, j \in DOMAIN page_log : page_log[i].src = page_log[j].src => i = j

\* The root has been loaded: one file went to the asset loop, one to a
\* feature and one to the final loop, each with a page.
C23_Witness ==
    /\ RootDir \in Range(load_done)
    /\ \E i, j, k \in DOMAIN page_log :
          /\ page_log[i].handler = "asset"
          /\ page_log[j].handler \in Loaders
          /\ page_log[k].handler = "fallback"

\* Directory e is d or below d.
Below(d, e) == Len(e) >= Len(d) /\ SubSeq(e, 1, Len(d)) = d

\* C24: for a directory whose own metadata carries the asset flag, in it and
\* in every directory below it that has been loaded no feature's load_dir was
\* called, and every page of a file there is a static asset.
C24_AssetTreeBypassesFeatures ==
    \A d, e \in Range(LoadOrder) :
        (IsAsset(dir_meta[d]) /\ Below(d, e) /\ e \in Range(load_done))
            => /\ \A k \in DOMAIN load_log :
                     load_log[k].dir = e => load_log[k].handler \notin Loaders
               /\ \A i \in DOMAIN page_log :
                     page_log[i].src[1] = e => page_log[i].type = "asset"

\* C25: in a ContentDir that has been loaded, a file of a kind a feature
\* claims (not marked asset) whose content does not parse is out of Dir.files
\* and has no page.
C25_UnparsableFileSkipped ==
    \A d \in Range(load_done) : \A f \in Range(Listing(d)) :
        (/\ dir_class[d] = "ContentDir"
         /\ Kind(f) # "none"
         /\ ~IsAsset(ScannedMeta(d, f))
         /\ ~disk[<<d, f>>].parses)
            => /\ f \notin files[d]
               /\ \A i \in DOMAIN page_log : page_log[i].src # <<d, f>>

\* C28: a feature's load_dir leaves the metadata of every file it does not
\* remove from Dir.files as it found it.
C28_LoadDirKeepsPendingMetadata ==
    \A k \in DOMAIN load_log :
        load_log[k].handler \in Loaders
            => \A f \in load_log[k].left :
                  load_log[k].meta_after[f] = load_log[k].meta_before[f]

====
